---- MODULE Spec2Model ----
(***************************************************************************)
(* Model of the RAG core of ai-stack-starter:                              *)
(*   - RAGPipeline.query and RAGPipeline.query_stream (app/rag/pipeline.py)*)
(*     together with the SSE transport chat_stream.generate                *)
(*     (app/api/v1/chat.py);                                               *)
(*   - DocumentProcessor (app/rag/document_processor.py).                  *)
(* Strings the code slices, measures or searches are sequences of          *)
(* one-character strings.  Similarity scores are hundredths (0.7 is 70).   *)
(* Wall-clock latency and monetary cost are not modelled.                  *)
(***************************************************************************)
EXTENDS Integers, Sequences, FiniteSets, TLC

(***************************************************************************)
(* Bounds of the model.                                                    *)
(***************************************************************************)
\* longest list a vector-store search returns (the configured top_k)
MaxResults == 2
\* most chunks the provider's stream yields in one run
MaxDeltas == 2
\* longest text handed to process_text
MaxTextLen == 6
\* largest chunk_size a DocumentProcessor is constructed with
MaxChunkSize == 5
\* chunks kept in the model's copy of the chunk list (the cursor runs on)
MaxChunks == 8
\* most sentence terminators in the text of the ingestion scenario
MaxTerminators == 2
\* longest list handed to upsert, and largest top_k of a search
MaxBatch == 2
\* most calls made on one vector store
MaxStoreCalls == 2
\* most chunks the backend of a provider adapter delivers in one stream
MaxBackendChunks == 2
\* most calls of create_document_id
MaxIdCalls == 2
\* most results a search returns to a pipeline with the default configuration
MaxRetrieved == 4
\* chunk_size and chunk_overlap of a DocumentProcessor with a high overlap
HighChunkSize == 10
HighChunkOverlap == 8
\* length of the texts it is given
LongTextLen == 17
\* most uploads in one run
MaxUploads == 3
\* longest conversation_history
MaxHistory == 7

(***************************************************************************)
(* Program constants.                                                      *)
(***************************************************************************)
\* RAGConfig.min_similarity, default 0.7, in hundredths
min_similarity == 70
\* r.text[:200]: length of a source preview
PreviewLen == 200
\* filtered_results[:3]: number of previewed sources
PreviewCount == 3
\* conversation_history[-6:]
HistoryWindow == 6
\* len(text) // 4: characters per estimated token
CharsPerToken == 4
\* DocumentProcessor.__init__: default chunk_size
DefaultChunkSize == 1000
\* DocumentProcessor.__init__: default chunk_overlap
DefaultChunkOverlap == 200
\* content[:1000] in create_document_id
IdPrefixLen == 1000
\* settings.RAG_CHUNK_SIZE
RagChunkSize == 1000
\* settings.RAG_CHUNK_OVERLAP
RagChunkOverlap == 200
\* RAGConfig.max_context_tokens, default
DefaultMaxContextTokens == 4000

(***************************************************************************)
(* Input domains.                                                          *)
(***************************************************************************)
\* ids of stored vectors; the text of a stored vector repeats its id
Ids == {"x", "y", "z"}
\* scores below, at and above min_similarity
Scores == {min_similarity - 1, min_similarity, min_similarity + 1}
\* lengths of retrieved texts
TextLens == {1, 8}
\* values of RAGConfig.max_context_tokens small enough to bind
TokenBudgets == {4, 9}
\* usage.total_tokens values a provider reports
UsageTokens == {0, 5}
\* the question asked
Question == <<"q", "?">>
\* characters of a document: a letter, a sentence terminator, whitespace
Chars == {"a", ".", " "}

VARIABLES
    \* RAGPipeline instance (get_rag_pipeline)
    pipeline_ready,       \* the singleton has been constructed
    max_context_tokens,   \* self.config.max_context_tokens
    \* one RAGPipeline.query call
    q_pc,                 \* "idle", "embed", "search", "complete", "returned", "raised"
    q_calls,              \* stages invoked so far, in order
    q_results,            \* search_results
    q_filtered,           \* filtered_results
    q_context,            \* context
    q_prompt,             \* prompt
    q_response,           \* the RAGResponse returned
    q_fault,              \* the exception a stage raised ("none" if none)
    q_exc,                \* the exception surfaced to the caller of query
    \* one RAGPipeline.query_stream run, driven by chat_stream.generate
    s_pc,                 \* where the generator is suspended
    s_calls,              \* stages invoked so far, in order
    s_results,            \* search_results
    s_filtered,           \* filtered_results
    s_context,            \* context
    s_events,             \* events yielded so far
    s_deltas,             \* deltas the provider's stream produced so far
    s_pending,            \* usage of the chunk whose token is being yielded
    s_total_tokens,       \* total_tokens
    s_fault,              \* the exception a stage raised ("none" if none)
    s_raised,             \* the exception that left the generator
    t_pc,                 \* chat_stream.generate: "idle", "streaming", "finished"
    t_sse,                \* SSE frames sent by chat_stream.generate
    \* DocumentProcessor
    dp_pc,                \* "none", "ready", "loop", "done"
    chunk_size,           \* self.chunk_size
    chunk_overlap,        \* self.chunk_overlap
    text,                 \* the text being chunked
    start,                \* cursor of the chunking loop
    chunks,               \* chunks
    visited,              \* cursor values at which an iteration has begun
    dp_result             \* the DocumentChunk list returned by process_text

VARIABLES
    \* DocumentProcessor.generate_chunk_ids
    document_id,          \* the document_id argument
    chunk_ids             \* the ids returned

VARIABLES
    \* one VectorMetadata taken through to_dict and from_dict
    rt_pc,                \* "idle", "made", "encoded", "decoded", "raised"
    rt_meta,              \* the VectorMetadata object
    rt_data,              \* to_dict(rt_meta)
    rt_back               \* from_dict(rt_data)

VARIABLES
    \* one VectorStore and the collection behind it
    vs_provider,          \* "none", "qdrant", "pgvector", "weaviate"
    vs_exists,            \* the collection exists in the backend
    vs_points,            \* the stored points, by id
    vs_before,            \* the stored points before the last call
    vs_call,              \* the last call: its arguments and its outcome
    vs_ncalls             \* calls made on the store so far

VARIABLES
    \* one LLMClient.stream run of a provider adapter
    ad_provider,          \* "none", "openai", "ollama", "gemini"
    ad_backend,           \* the chunks the backend's stream delivers
    ad_read,              \* how many of them the adapter has read
    ad_out,               \* the LLMStreamChunks yielded so far
    ad_ended              \* the generator has returned

VARIABLES
    \* one call of RAGPipeline._build_prompt
    bp_pc,                \* "idle", "built"
    bp_history,           \* the conversation_history argument
    bp_context,           \* the context argument
    bp_messages           \* the messages returned

VARIABLES
    \* uploads through upload_document into the pipeline's vector store
    up_points,            \* the stored chunks, by chunk id
    up_latest,            \* chunk count of the latest indexed upload, by document id
    up_count              \* uploads made so far

VARIABLES
    \* calls of create_document_id
    id_calls              \* the calls made so far: arguments and returned id

VARIABLES
    \* cancellation of a query_stream run by its consumer
    s_cancelled,          \* the consumer has cancelled the run
    s_at_cancel           \* the events delivered when it did

qvars == <<q_pc, q_calls, q_results, q_filtered, q_context, q_prompt,
           q_response, q_fault, q_exc>>
svars == <<s_pc, s_calls, s_results, s_filtered, s_context, s_events, s_deltas,
           s_pending, s_total_tokens, s_fault, s_raised, t_pc, t_sse>>
dvars == <<dp_pc, chunk_size, chunk_overlap, text, start, chunks, visited, dp_result>>
pvars == <<pipeline_ready, max_context_tokens>>
ivars == <<document_id, chunk_ids>>
mvars == <<rt_pc, rt_meta, rt_data, rt_back>>
vvars == <<vs_provider, vs_exists, vs_points, vs_before, vs_call, vs_ncalls>>
avars == <<ad_provider, ad_backend, ad_read, ad_out, ad_ended>>
cvars == <<s_cancelled, s_at_cancel>>
hvars == <<id_calls>>
bvars == <<bp_pc, bp_history, bp_context, bp_messages>>
uvars == <<up_points, up_latest, up_count>>
xvars == <<ivars, mvars, vvars, avars, cvars, hvars, bvars, uvars>>
vars == <<pvars, qvars, svars, dvars, xvars>>

(***************************************************************************)
(* String helpers (Python semantics).                                      *)
(***************************************************************************)
Min(a, b) == IF a < b THEN a ELSE b
Max(a, b) == IF a > b THEN a ELSE b

\* s[:n] for n >= 0
Take(s, n) == SubSeq(s, 1, Min(n, Len(s)))

\* normalisation of a slice index against a length
SliceIndex(i, n) == IF i < 0 THEN Max(i + n, 0) ELSE Min(i, n)

\* s[i:j], either index possibly negative or past the end
PySlice(s, i, j) ==
    LET a == SliceIndex(i, Len(s))
        b == SliceIndex(j, Len(s))
    IN  IF a >= b THEN <<>> ELSE SubSeq(s, a + 1, b)

\* s.rfind(c): zero-based index of the last c, -1 if there is none
RFind(s, c) ==
    IF \A i \in 1..Len(s) : s[i] /= c THEN -1
    ELSE (CHOOSE i \in 1..Len(s) :
            s[i] = c /\ \A j \in (i + 1)..Len(s) : s[j] /= c) - 1

IsSpace(c) == c \in {" ", "\n", "\t"}

\* s.strip()
Strip(s) ==
    IF \A i \in 1..Len(s) : IsSpace(s[i]) THEN <<>>
    ELSE SubSeq(s,
                CHOOSE i \in 1..Len(s) :
                    ~IsSpace(s[i]) /\ \A j \in 1..(i - 1) : IsSpace(s[j]),
                CHOOSE i \in 1..Len(s) :
                    ~IsSpace(s[i]) /\ \A j \in (i + 1)..Len(s) : IsSpace(s[j]))

DigitChar(d) == <<"0", "1", "2", "3", "4", "5", "6", "7", "8", "9">>[d + 1]

RECURSIVE Decimal(_)
\* str(n) for n >= 0
Decimal(n) ==
    IF n < 10 THEN <<DigitChar(n)>>
    ELSE Decimal(n \div 10) \o <<DigitChar(n % 10)>>

RECURSIVE Join(_, _)
\* sep.join(parts)
Join(sep, parts) ==
    IF parts = <<>> THEN <<>>
    ELSE IF Len(parts) = 1 THEN parts[1]
    ELSE parts[1] \o sep \o Join(sep, Tail(parts))

\* t occurs in s as a contiguous substring
Contains(s, t) ==
    \E i \in 0..(Len(s) - Len(t)) : SubSeq(s, i + 1, i + Len(t)) = t

(***************************************************************************)
(* Search results.                                                         *)
(***************************************************************************)
\* the stored text of vector id, n characters long
TextOf(id, n) == [k \in 1..n |-> id]

StoredResults ==
    {[id |-> i, score |-> sc, text |-> TextOf(i, n)] :
        i \in Ids, sc \in Scores, n \in TextLens}

RECURSIVE ResultLists(_)
\* lists of n results with pairwise distinct ids
ResultLists(n) ==
    IF n = 0 THEN {<<>>}
    ELSE {Append(p[1], p[2]) :
            p \in {pp \in ResultLists(n - 1) \X StoredResults :
                     \A k \in 1..Len(pp[1]) : pp[1][k].id /= pp[2].id}}

\* what vector_store.search may return: at most top_k results
top_k == MaxResults
SearchOutcomes == UNION {ResultLists(n) : n \in 0..top_k}

(***************************************************************************)
(* RAGPipeline helpers.                                                    *)
(***************************************************************************)
\* [r for r in search_results if r.score > min_similarity]: boundary dropped
FilterResults_Strict(results) ==
    SelectSeq(results, LAMBDA r : r.score > min_similarity)

\* [r for r in search_results if r.score >= self.config.min_similarity]
FilterResults(results) ==
    SelectSeq(results, LAMBDA r : r.score >= min_similarity)

\* f"[Source {i+1}]\n{result.text}\n", i zero-based
SourcePart(i, result) ==
    <<"[", "S", "o", "u", "r", "c", "e", " ">> \o Decimal(i + 1)
        \o <<"]", "\n">> \o result.text \o <<"\n">>

\* rough token estimate of one part
PartTokens(part) == Len(part) \div CharsPerToken

RECURSIVE ContextParts_Skip(_, _, _, _)
\* a loop that passes over a part that does not fit and goes on (continue)
ContextParts_Skip(results, i, token_count, budget) ==
    IF i >= Len(results) THEN <<>>
    ELSE LET part == SourcePart(i, results[i + 1])
             tokens == PartTokens(part)
         IN  IF token_count + tokens > budget
             THEN ContextParts_Skip(results, i + 1, token_count, budget)
             ELSE <<part>> \o ContextParts_Skip(results, i + 1, token_count + tokens, budget)

RECURSIVE ContextParts(_, _, _, _)
\* the loop of _build_context from index i on: parts appended until the
\* budget would be exceeded, then break
ContextParts(results, i, token_count, budget) ==
    IF i >= Len(results) THEN <<>>
    ELSE LET part == SourcePart(i, results[i + 1])
             tokens == PartTokens(part)
         IN  IF token_count + tokens > budget THEN <<>>
             ELSE <<part>> \o ContextParts(results, i + 1, token_count + tokens, budget)

ContextSeparator == <<"\n", "-", "-", "-", "\n", "\n">>

\* RAGPipeline._build_context
BuildContext(results, budget) ==
    Join(ContextSeparator, ContextParts(results, 0, 0, budget))

SystemInstruction == "You are a helpful AI assistant. [...] Always cite sources using [Source N] notation."

\* conversation_history[:6]: the first messages instead of the last
LastMessages_Head(history) == Take(history, HistoryWindow)

\* conversation_history[-6:]
LastMessages(history) ==
    IF Len(history) <= HistoryWindow THEN history
    ELSE SubSeq(history, Len(history) - HistoryWindow + 1, Len(history))

\* RAGPipeline._build_prompt; the user message is the f-string
\* "Context:\n{context}\n\nQuestion: {question}\n\nAnswer:" kept as its two holes
BuildPrompt(question, context, history) ==
    <<[role |-> "system", content |-> SystemInstruction]>>
        \o (IF history /= <<>> THEN LastMessages(history) ELSE <<>>)
        \o <<[role |-> "user",
              content |-> [context |-> context, question |-> question]]>>

\* r.text[:200] + "..."
Preview(t) == Take(t, PreviewLen) \o <<".", ".", ".">>

\* [r.id for r in results]
IdsOf(results) == [k \in 1..Len(results) |-> results[k].id]
\* [r.text[:200] + "..." for r in results]
PreviewsOf(results) == [k \in 1..Len(results) |-> Preview(results[k].text)]

\* a RAGResponse that reports only the results included in the context
BuildResponse_Included(llm_response, filtered) ==
    LET used == Take(filtered, Len(ContextParts(filtered, 0, 0, max_context_tokens)))
    IN  [answer |-> llm_response.content,
         sources |-> IdsOf(used),
         source_texts |-> PreviewsOf(Take(filtered, PreviewCount)),
         tokens_used |-> llm_response.total_tokens,
         context_chunks |-> Len(used)]

\* the RAGResponse of query
BuildResponse(llm_response, filtered) ==
    [answer |-> llm_response.content,
     sources |-> IdsOf(filtered),
     source_texts |-> PreviewsOf(Take(filtered, PreviewCount)),
     tokens_used |-> llm_response.total_tokens,
     context_chunks |-> Len(filtered)]

NoResponse == [answer |-> "", sources |-> <<>>, source_texts |-> <<>>,
               tokens_used |-> 0, context_chunks |-> 0]

\* what self.llm.complete may return
LlmResponses == {[content |-> "answer", total_tokens |-> n] : n \in UsageTokens}

(***************************************************************************)
(* Initial state: nothing constructed, no call in progress.                *)
(***************************************************************************)
Init ==
    /\ pipeline_ready = FALSE
    /\ max_context_tokens = 0
    /\ q_pc = "idle"
    /\ q_calls = <<>>
    /\ q_results = <<>>
    /\ q_filtered = <<>>
    /\ q_context = <<>>
    /\ q_prompt = <<>>
    /\ q_response = NoResponse
    /\ q_fault = "none"
    /\ q_exc = "none"
    /\ s_pc = "idle"
    /\ s_calls = <<>>
    /\ s_results = <<>>
    /\ s_filtered = <<>>
    /\ s_context = <<>>
    /\ s_events = <<>>
    /\ s_deltas = <<>>
    /\ s_pending = -1
    /\ s_total_tokens = 0
    /\ s_fault = "none"
    /\ s_raised = "none"
    /\ t_pc = "idle"
    /\ t_sse = <<>>
    /\ dp_pc = "none"
    /\ chunk_size = 0
    /\ chunk_overlap = 0
    /\ text = <<>>
    /\ start = 0
    /\ chunks = <<>>
    /\ visited = {}
    /\ dp_result = <<>>
    /\ document_id = <<>>
    /\ chunk_ids = <<>>
    /\ rt_pc = "idle"
    /\ rt_meta = <<>>
    /\ rt_data = <<>>
    /\ rt_back = <<>>
    /\ vs_provider = "none"
    /\ vs_exists = FALSE
    /\ vs_points = <<>>
    /\ vs_before = <<>>
    /\ vs_call = [op |-> "none"]
    /\ vs_ncalls = 0
    /\ ad_provider = "none"
    /\ ad_backend = <<>>
    /\ ad_read = 0
    /\ ad_out = <<>>
    /\ ad_ended = FALSE
    /\ s_cancelled = FALSE
    /\ s_at_cancel = <<>>
    /\ id_calls = <<>>
    /\ bp_pc = "idle"
    /\ bp_history = <<>>
    /\ bp_context = <<>>
    /\ bp_messages = <<>>
    /\ up_points = <<>>
    /\ up_latest = <<>>
    /\ up_count = 0

(***************************************************************************)
(* get_rag_pipeline / RAGPipeline.__init__                                 *)
(***************************************************************************)
GetRagPipeline ==
    /\ ~pipeline_ready
    /\ pipeline_ready' = TRUE
    /\ max_context_tokens' \in TokenBudgets
    /\ UNCHANGED <<qvars, svars, dvars, xvars>>

(***************************************************************************)
(* RAGPipeline.query, one action per await.                                *)
(***************************************************************************)
\* an except clause that invokes the failed stage once more
QueryExcept_Retry(e) ==
    IF Len(q_calls) < 4
    THEN /\ q_pc' = q_pc
         /\ q_calls' = Append(q_calls, q_calls[Len(q_calls)])
         /\ q_exc' = q_exc
    ELSE /\ q_pc' = "raised"
         /\ q_calls' = q_calls
         /\ q_exc' = e

\* except Exception as e: logger.error(...); raise
QueryExcept(e) ==
    /\ q_pc' = "raised"
    /\ q_calls' = q_calls
    /\ q_exc' = e

\* the call is made; query runs up to `await self.llm.embed(question)`
QueryStart ==
    /\ pipeline_ready
    /\ q_pc = "idle"
    /\ s_pc = "idle"
    /\ q_pc' = "embed"
    /\ q_calls' = <<"embed">>
    /\ UNCHANGED <<q_results, q_filtered, q_context, q_prompt, q_response,
                   q_fault, q_exc, pvars, svars, dvars, xvars>>

\* embed returns; query runs up to `await self.vector_store.search(...)`
QEmbedReturn ==
    /\ q_pc = "embed"
    /\ q_pc' = "search"
    /\ q_calls' = Append(q_calls, "search")
    /\ UNCHANGED <<q_results, q_filtered, q_context, q_prompt, q_response,
                   q_fault, q_exc, pvars, svars, dvars, xvars>>

\* embed raises
QEmbedRaise ==
    /\ q_pc = "embed"
    /\ q_fault' = "EmbedError"
    /\ QueryExcept("EmbedError")
    /\ UNCHANGED <<q_results, q_filtered, q_context, q_prompt, q_response,
                   pvars, svars, dvars, xvars>>

\* a search that finds nothing usable makes query return an empty answer
QSearchReturn_ShortCircuit ==
    /\ q_pc = "search"
    /\ \E results \in SearchOutcomes :
         LET filtered == FilterResults(results)
             context == BuildContext(filtered, max_context_tokens)
         IN  /\ q_results' = results
             /\ q_filtered' = filtered
             /\ q_context' = context
             /\ q_prompt' = BuildPrompt(Question, context, <<>>)
             /\ IF filtered = <<>>
                THEN /\ q_pc' = "returned"
                     /\ q_calls' = q_calls
                ELSE /\ q_pc' = "complete"
                     /\ q_calls' = Append(q_calls, "complete")
    /\ UNCHANGED <<q_response, q_fault, q_exc, pvars, svars, dvars, xvars>>

\* search returns; query filters, builds context and prompt and runs up to
\* `await self.llm.complete(...)`
QSearchReturn ==
    /\ q_pc = "search"
    /\ \E results \in SearchOutcomes :
         LET filtered == FilterResults(results)
             context == BuildContext(filtered, max_context_tokens)
         IN  /\ q_results' = results
             /\ q_filtered' = filtered
             /\ q_context' = context
             /\ q_prompt' = BuildPrompt(Question, context, <<>>)
    /\ q_pc' = "complete"
    /\ q_calls' = Append(q_calls, "complete")
    /\ UNCHANGED <<q_response, q_fault, q_exc, pvars, svars, dvars, xvars>>

\* search raises
QSearchRaise ==
    /\ q_pc = "search"
    /\ q_fault' = "SearchError"
    /\ QueryExcept("SearchError")
    /\ UNCHANGED <<q_results, q_filtered, q_context, q_prompt, q_response,
                   pvars, svars, dvars, xvars>>

\* complete returns; query builds the RAGResponse and returns it
QCompleteReturn ==
    /\ q_pc = "complete"
    /\ \E llm_response \in LlmResponses :
         q_response' = BuildResponse(llm_response, q_filtered)
    /\ q_pc' = "returned"
    /\ UNCHANGED <<q_calls, q_results, q_filtered, q_context, q_prompt,
                   q_fault, q_exc, pvars, svars, dvars, xvars>>

\* complete raises
QCompleteRaise ==
    /\ q_pc = "complete"
    /\ q_fault' = "CompleteError"
    /\ QueryExcept("CompleteError")
    /\ UNCHANGED <<q_results, q_filtered, q_context, q_prompt, q_response,
                   pvars, svars, dvars, xvars>>

QueryNext ==
    \/ QueryStart
    \/ QEmbedReturn
    \/ QEmbedRaise
    \/ QSearchReturn
    \/ QSearchRaise
    \/ QCompleteReturn
    \/ QCompleteRaise

(***************************************************************************)
(* RAGPipeline.query_stream, consumed by chat_stream.generate.  The        *)
(* generator is suspended at an await (s_pc "embed", "search", "stream")   *)
(* or at a yield (s_pc "yield_*"); each action runs it to the next one.    *)
(***************************************************************************)
NoUsage == -1

\* the events of query_stream
SourceEntry(r) == [id |-> r.id, text |-> Preview(r.text), score |-> r.score]
SourcesEvent(filtered) ==
    [type |-> "sources",
     sources |-> [k \in 1..Len(Take(filtered, PreviewCount)) |-> SourceEntry(filtered[k])]]
TokenEvent(delta) == [type |-> "token", content |-> delta]
DoneEvent(total, filtered) ==
    [type |-> "done",
     metadata |-> [tokens_used |-> total, sources_count |-> Len(filtered)]]
ErrorEvent(e) == [type |-> "error", error |-> e]

\* f"data: {json.dumps(event)}\n\n"
SseFrame(event) == <<"data: ", event, "\n\n">>

\* `yield event` in query_stream; generate forwards it as one SSE frame
Yield(event) ==
    /\ s_events' = Append(s_events, event)
    /\ t_sse' = Append(t_sse, SseFrame(event))

\* an exception leaves query_stream and reaches the except clause of generate
TransportExcept(e) ==
    /\ s_raised' = e
    /\ s_pc' = "closed"
    /\ s_events' = s_events
    /\ t_sse' = Append(t_sse, SseFrame(ErrorEvent(e)))
    /\ t_pc' = "finished"

\* a try block that covers generation only: retrieval failures propagate
StreamExcept_GenerationOnly(e) ==
    IF e \in {"EmbedError", "SearchError"}
    THEN TransportExcept(e)
    ELSE /\ Yield(ErrorEvent(e))
         /\ s_pc' = "yield_error"
         /\ s_raised' = s_raised
         /\ t_pc' = t_pc

\* a try block that covers retrieval only: generation failures propagate
StreamExcept_RetrievalOnly(e) ==
    IF e \in {"EmbedError", "SearchError"}
    THEN /\ Yield(ErrorEvent(e))
         /\ s_pc' = "yield_error"
         /\ s_raised' = s_raised
         /\ t_pc' = t_pc
    ELSE TransportExcept(e)

\* except Exception as e: logger.error(...); yield {"type": "error", ...}
StreamExcept(e) ==
    /\ Yield(ErrorEvent(e))
    /\ s_pc' = "yield_error"
    /\ s_raised' = s_raised
    /\ t_pc' = t_pc

\* generate calls get_rag_pipeline() and starts iterating query_stream,
\* which runs up to `await self.llm.embed(question)`
StreamStart ==
    /\ pipeline_ready
    /\ t_pc = "idle"
    /\ q_pc = "idle"
    /\ t_pc' = "streaming"
    /\ s_pc' = "embed"
    /\ s_calls' = <<"embed">>
    /\ UNCHANGED <<s_results, s_filtered, s_context, s_events, s_deltas, s_pending,
                   s_total_tokens, s_fault, s_raised, t_sse, pvars, qvars, dvars, xvars>>

\* get_rag_pipeline() raises inside generate: the except clause sends an error
TransportPipelineFails ==
    /\ ~pipeline_ready
    /\ t_pc = "idle"
    /\ q_pc = "idle"
    /\ t_pc' = "finished"
    /\ t_sse' = Append(t_sse, SseFrame(ErrorEvent("PipelineError")))
    /\ UNCHANGED <<s_pc, s_calls, s_results, s_filtered, s_context, s_events,
                   s_deltas, s_pending, s_total_tokens, s_fault, s_raised,
                   pvars, qvars, dvars, xvars>>

SEmbedReturn ==
    /\ s_pc = "embed"
    /\ s_pc' = "search"
    /\ s_calls' = Append(s_calls, "search")
    /\ UNCHANGED <<s_results, s_filtered, s_context, s_events, s_deltas, s_pending,
                   s_total_tokens, s_fault, s_raised, t_pc, t_sse, pvars, qvars, dvars, xvars>>

SEmbedRaise ==
    /\ s_pc = "embed"
    /\ s_fault' = "EmbedError"
    /\ StreamExcept("EmbedError")
    /\ UNCHANGED <<s_calls, s_results, s_filtered, s_context, s_deltas, s_pending,
                   s_total_tokens, pvars, qvars, dvars, xvars>>

\* search returns; the results are filtered and the sources event is yielded
SSearchReturn ==
    /\ s_pc = "search"
    /\ \E results \in SearchOutcomes :
         /\ s_results' = results
         /\ s_filtered' = FilterResults(results)
         /\ Yield(SourcesEvent(FilterResults(results)))
    /\ s_pc' = "yield_sources"
    /\ UNCHANGED <<s_calls, s_context, s_deltas, s_pending, s_total_tokens,
                   s_fault, s_raised, t_pc, pvars, qvars, dvars, xvars>>

SSearchRaise ==
    /\ s_pc = "search"
    /\ s_fault' = "SearchError"
    /\ StreamExcept("SearchError")
    /\ UNCHANGED <<s_calls, s_results, s_filtered, s_context, s_deltas, s_pending,
                   s_total_tokens, pvars, qvars, dvars, xvars>>

\* resumed after the sources event: context and prompt are built and the
\* provider's stream is opened
SResumeSources ==
    /\ s_pc = "yield_sources"
    /\ s_context' = BuildContext(s_filtered, max_context_tokens)
    /\ s_calls' = Append(s_calls, "stream")
    /\ s_pc' = "stream"
    /\ UNCHANGED <<s_results, s_filtered, s_events, s_deltas, s_pending,
                   s_total_tokens, s_fault, s_raised, t_pc, t_sse, pvars, qvars, dvars, xvars>>

\* the k-th delta of a generation, when it is not empty
Token(k) == <<"t">> \o Decimal(k)

\* a loop body that looks at the chunk's usage first and, having found one,
\* goes on to the next chunk without yielding the delta
SChunk_UsageFirst ==
    /\ s_pc = "stream"
    /\ Len(s_deltas) < MaxDeltas
    /\ \E delta \in {<<>>, Token(Len(s_deltas) + 1)}, usage \in {NoUsage} \cup UsageTokens :
         /\ s_deltas' = Append(s_deltas, delta)
         /\ IF delta /= <<>> /\ usage = NoUsage
            THEN /\ Yield(TokenEvent(delta))
                 /\ s_pending' = usage
                 /\ s_total_tokens' = s_total_tokens
                 /\ s_pc' = "yield_token"
            ELSE /\ s_events' = s_events
                 /\ t_sse' = t_sse
                 /\ s_pending' = NoUsage
                 /\ s_total_tokens' = IF usage /= NoUsage THEN usage ELSE s_total_tokens
                 /\ s_pc' = "stream"
    /\ UNCHANGED <<s_calls, s_results, s_filtered, s_context, s_fault, s_raised,
                   t_pc, pvars, qvars, dvars, xvars>>

\* the provider's stream yields a chunk: a non-empty delta is yielded as a
\* token event before the chunk's usage is looked at
SChunk ==
    /\ s_pc = "stream"
    /\ Len(s_deltas) < MaxDeltas
    /\ \E delta \in {<<>>, Token(Len(s_deltas) + 1)}, usage \in {NoUsage} \cup UsageTokens :
         /\ s_deltas' = Append(s_deltas, delta)
         /\ IF delta /= <<>>
            THEN /\ Yield(TokenEvent(delta))
                 /\ s_pending' = usage
                 /\ s_total_tokens' = s_total_tokens
                 /\ s_pc' = "yield_token"
            ELSE /\ s_events' = s_events
                 /\ t_sse' = t_sse
                 /\ s_pending' = NoUsage
                 /\ s_total_tokens' = IF usage /= NoUsage THEN usage ELSE s_total_tokens
                 /\ s_pc' = "stream"
    /\ UNCHANGED <<s_calls, s_results, s_filtered, s_context, s_fault, s_raised,
                   t_pc, pvars, qvars, dvars, xvars>>

\* resumed after a token event: `if chunk.usage`, then the next chunk is awaited
SResumeToken ==
    /\ s_pc = "yield_token"
    /\ s_total_tokens' = IF s_pending /= NoUsage THEN s_pending ELSE s_total_tokens
    /\ s_pending' = NoUsage
    /\ s_pc' = "stream"
    /\ UNCHANGED <<s_calls, s_results, s_filtered, s_context, s_events, s_deltas,
                   s_fault, s_raised, t_pc, t_sse, pvars, qvars, dvars, xvars>>

\* the provider's stream ends: the done event is yielded
SStreamEnd ==
    /\ s_pc = "stream"
    /\ Yield(DoneEvent(s_total_tokens, s_filtered))
    /\ s_pc' = "yield_done"
    /\ UNCHANGED <<s_calls, s_results, s_filtered, s_context, s_deltas, s_pending,
                   s_total_tokens, s_fault, s_raised, t_pc, pvars, qvars, dvars, xvars>>

\* the provider's stream raises
SStreamRaise ==
    /\ s_pc = "stream"
    /\ s_fault' = "StreamError"
    /\ StreamExcept("StreamError")
    /\ UNCHANGED <<s_calls, s_results, s_filtered, s_context, s_deltas, s_pending,
                   s_total_tokens, pvars, qvars, dvars, xvars>>

\* the completion log line, still inside the try block, fails after done
SResumeDone_LogRaises ==
    /\ s_pc = "yield_done"
    /\ s_fault' = "LogError"
    /\ StreamExcept("LogError")
    /\ UNCHANGED <<s_calls, s_results, s_filtered, s_context, s_deltas, s_pending,
                   s_total_tokens, pvars, qvars, dvars, xvars>>

\* resumed after the done event: logger.info, then the generator is exhausted
SResumeDone ==
    /\ s_pc = "yield_done"
    /\ s_pc' = "closed"
    /\ t_pc' = "finished"
    /\ UNCHANGED <<s_calls, s_results, s_filtered, s_context, s_events, s_deltas,
                   s_pending, s_total_tokens, s_fault, s_raised, t_sse,
                   pvars, qvars, dvars, xvars>>

\* an except clause that re-raises after its error event: the exception
\* reaches generate, which sends an error of its own
SResumeError_Reraise ==
    /\ s_pc = "yield_error"
    /\ TransportExcept(s_fault)
    /\ UNCHANGED <<s_calls, s_results, s_filtered, s_context, s_deltas, s_pending,
                   s_total_tokens, s_fault, pvars, qvars, dvars, xvars>>

\* resumed after the error event: the generator is exhausted
SResumeError ==
    /\ s_pc = "yield_error"
    /\ s_pc' = "closed"
    /\ t_pc' = "finished"
    /\ UNCHANGED <<s_calls, s_results, s_filtered, s_context, s_events, s_deltas,
                   s_pending, s_total_tokens, s_fault, s_raised, t_sse,
                   pvars, qvars, dvars, xvars>>

StreamNext ==
    \/ StreamStart
    \/ TransportPipelineFails
    \/ SEmbedReturn
    \/ SEmbedRaise
    \/ SSearchReturn
    \/ SSearchRaise
    \/ SResumeSources
    \/ SChunk
    \/ SResumeToken
    \/ SStreamEnd
    \/ SStreamRaise
    \/ SResumeDone
    \/ SResumeError

Next ==
    \/ GetRagPipeline
    \/ QueryNext
    \/ StreamNext

Spec == Init /\ [][Next]_vars

(***************************************************************************)
(* Failures of the transport itself: json.dumps(event) raises in generate  *)
(* on an event query_stream has yielded.  The except clause of generate    *)
(* sends its error frame and generate ends; query_stream is not resumed.   *)
(* An error event holds str(e) only and always serialises.                 *)
(***************************************************************************)
\* `yield event` in query_stream, then json.dumps(event) raises in generate
YieldUnsent(event) ==
    /\ s_events' = Append(s_events, event)
    /\ t_sse' = Append(t_sse, SseFrame(ErrorEvent("SerializeError")))
    /\ s_pc' = "closed"
    /\ t_pc' = "finished"

\* the sources event cannot be serialised
TSourcesUnsent ==
    /\ s_pc = "search"
    /\ \E results \in SearchOutcomes :
         /\ s_results' = results
         /\ s_filtered' = FilterResults(results)
         /\ YieldUnsent(SourcesEvent(FilterResults(results)))
    /\ UNCHANGED <<s_calls, s_context, s_deltas, s_pending, s_total_tokens,
                   s_fault, s_raised, pvars, qvars, dvars, xvars>>

\* a token event cannot be serialised
TTokenUnsent ==
    /\ s_pc = "stream"
    /\ Len(s_deltas) < MaxDeltas
    /\ s_deltas' = Append(s_deltas, Token(Len(s_deltas) + 1))
    /\ YieldUnsent(TokenEvent(Token(Len(s_deltas) + 1)))
    /\ UNCHANGED <<s_calls, s_results, s_filtered, s_context, s_pending,
                   s_total_tokens, s_fault, s_raised, pvars, qvars, dvars, xvars>>

\* the done event cannot be serialised
TDoneUnsent ==
    /\ s_pc = "stream"
    /\ YieldUnsent(DoneEvent(s_total_tokens, s_filtered))
    /\ UNCHANGED <<s_calls, s_results, s_filtered, s_context, s_deltas, s_pending,
                   s_total_tokens, s_fault, s_raised, pvars, qvars, dvars, xvars>>

TransportNext ==
    \/ GetRagPipeline
    \/ StreamNext
    \/ TSourcesUnsent
    \/ TTokenUnsent
    \/ TDoneUnsent

SpecTransport == Init /\ [][TransportNext]_vars

(***************************************************************************)
(* query_stream on a pipeline with the default RAGConfig, whose search     *)
(* returns more results than the sources event previews.                   *)
(***************************************************************************)
RetrievedIds == <<"p", "q", "r", "s", "t", "u">>
\* what the search may return: up to MaxRetrieved results (no more than
\* top_k) of one-character texts, all with the same score
RetrievedOutcomes ==
    {[k \in 1..n |-> [id |-> RetrievedIds[k], score |-> sc,
                      text |-> TextOf(RetrievedIds[k], 1)]] :
        n \in 0..MaxRetrieved, sc \in Scores}

\* get_rag_pipeline(): RAGPipeline with RAGConfig()
GetRagPipelineDefault ==
    /\ ~pipeline_ready
    /\ pipeline_ready' = TRUE
    /\ max_context_tokens' = DefaultMaxContextTokens
    /\ UNCHANGED <<qvars, svars, dvars, xvars>>

\* search returns; the results are filtered and the sources event is yielded
SSearchReturnMany ==
    /\ s_pc = "search"
    /\ \E results \in RetrievedOutcomes :
         /\ s_results' = results
         /\ s_filtered' = FilterResults(results)
         /\ Yield(SourcesEvent(FilterResults(results)))
    /\ s_pc' = "yield_sources"
    /\ UNCHANGED <<s_calls, s_context, s_deltas, s_pending, s_total_tokens,
                   s_fault, s_raised, t_pc, pvars, qvars, dvars, xvars>>

CitationNext ==
    \/ GetRagPipelineDefault
    \/ StreamStart
    \/ TransportPipelineFails
    \/ SEmbedReturn
    \/ SEmbedRaise
    \/ SSearchReturnMany
    \/ SSearchRaise
    \/ SResumeSources
    \/ SChunk
    \/ SResumeToken
    \/ SStreamEnd
    \/ SStreamRaise
    \/ SResumeDone
    \/ SResumeError

SpecCitation == Init /\ [][CitationNext]_vars

(***************************************************************************)
(* _build_prompt called with a conversation history.  A history is a list  *)
(* of user and assistant messages; the k-th message says so in its content.*)
(* None and the empty list are both falsy and are the empty sequence here. *)
(***************************************************************************)
HistoryRoles == {"user", "assistant"}
Histories ==
    UNION {{[k \in 1..n |-> [role |-> f[k], content |-> <<"m">> \o Decimal(k)]] :
               f \in [1..n -> HistoryRoles]} : n \in 0..MaxHistory}
\* contexts _build_context can produce: empty, and one source
PromptContexts ==
    {BuildContext(rs, 9) : rs \in {<<>>, <<[id |-> "x", score |-> min_similarity,
                                             text |-> TextOf("x", 1)]>>}}

\* self._build_prompt(question, context, conversation_history)
BuildPromptCall ==
    /\ \E history \in Histories, context \in PromptContexts :
         /\ bp_history' = history
         /\ bp_context' = context
         /\ bp_messages' = BuildPrompt(Question, context, history)
    /\ bp_pc' = "built"
    /\ UNCHANGED <<pvars, qvars, svars, dvars, ivars, mvars, vvars, avars, cvars, hvars, uvars>>

PromptNext == BuildPromptCall

SpecPrompt == Init /\ [][PromptNext]_vars

(***************************************************************************)
(* create_document_id.  sha256 is a function of the bytes it is given and  *)
(* of nothing else: a fresh hash object is made on each call.  The digest  *)
(* is kept abstract, as the value determined by those bytes; encode() is   *)
(* one-to-one on strings.                                                  *)
(***************************************************************************)
IdSources == {<<"a", ".", "t", "x", "t">>, <<"b">>}
\* contents one short of the cut, at the cut and beyond it; all "a" but for
\* at most one "b" at the last position before the cut or after it
IdLengths == {IdPrefixLen - 1, IdPrefixLen, IdPrefixLen + 2}
IdContents ==
    {[i \in 1..n |-> IF i = p THEN "b" ELSE "a"] :
        n \in IdLengths, p \in {0, IdPrefixLen, IdPrefixLen + 1, IdPrefixLen + 2}}

\* f"{source}:{content}", the whole of content
Combined_WholeContent(source, content) == source \o <<":">> \o content

\* f"{source}:{content[:1000]}"
Combined(source, content) == source \o <<":">> \o Take(content, IdPrefixLen)

\* hashlib.sha256(combined.encode()).hexdigest()[:16]
HexDigest16(combined) == [sha256 |-> combined, hex |-> 16]

\* f"doc_{...}"
DocumentId(source, content) ==
    [prefix |-> "doc_", digest |-> HexDigest16(Combined(source, content))]

\* one call of create_document_id
CreateDocumentId ==
    /\ Len(id_calls) < MaxIdCalls
    /\ \E source \in IdSources, content \in IdContents :
          id_calls' = Append(id_calls, [source |-> source, content |-> content,
                                         id |-> DocumentId(source, content)])
    /\ UNCHANGED <<pvars, qvars, svars, dvars, ivars, mvars, vvars, avars, cvars, bvars, uvars>>

DocumentIdNext == CreateDocumentId

SpecDocumentId == Init /\ [][DocumentIdNext]_vars

(***************************************************************************)
(* Cancellation of query_stream by its consumer.  A cancellation reaches   *)
(* the generator at the point where it is suspended: as CancelledError at  *)
(* an await, as GeneratorExit at a yield.                                  *)
(***************************************************************************)
\* the points at which query_stream is suspended
Awaits == {"embed", "search", "stream"}
YieldPoints == {"yield_sources", "yield_token", "yield_done", "yield_error"}

\* an except clause without an exception class
CaughtByExcept_Bare(e) == TRUE

\* `except Exception`: CancelledError and GeneratorExit derive from
\* BaseException only
CaughtByExcept(e) == e \notin {"CancelledError", "GeneratorExit"}

\* the consumer cancels the run; the exception is thrown into the generator
\* where it is suspended and, unless an except clause catches it, leaves
\* query_stream and generate
SCancel ==
    /\ s_pc \in Awaits \cup YieldPoints
    /\ ~s_cancelled
    /\ s_cancelled' = TRUE
    /\ s_at_cancel' = s_events
    /\ LET e == IF s_pc \in Awaits THEN "CancelledError" ELSE "GeneratorExit"
       IN  IF CaughtByExcept(e) /\ s_pc /= "yield_error"
           THEN StreamExcept(e)
           ELSE /\ s_raised' = e
                /\ s_pc' = "cancelled"
                /\ t_pc' = "finished"
                /\ s_events' = s_events
                /\ t_sse' = t_sse
    /\ UNCHANGED <<s_calls, s_results, s_filtered, s_context, s_deltas, s_pending,
                   s_total_tokens, s_fault, pvars, qvars, dvars, ivars, mvars, vvars, avars, hvars, bvars, uvars>>

CancelNext ==
    \/ GetRagPipeline
    \/ StreamNext
    \/ SCancel

SpecCancel == Init /\ [][CancelNext]_vars

(***************************************************************************)
(* DocumentProcessor.                                                      *)
(***************************************************************************)
\* texts of at most MaxTextLen characters
Texts == UNION {[1..n -> Chars] : n \in 0..MaxTextLen}

\* DocumentProcessor.__init__: the two parameters are stored as given
Construct ==
    /\ dp_pc = "none"
    /\ \E cs \in 1..MaxChunkSize :
         \E ov \in 0..cs :
            /\ chunk_size' = cs
            /\ chunk_overlap' = ov
    /\ dp_pc' = "ready"
    /\ UNCHANGED <<text, start, chunks, visited, dp_result, pvars, qvars, svars, xvars>>

\* max(chunk.rfind('.'), chunk.rfind('?'), chunk.rfind('!'))
LastTerminator(chunk) ==
    Max(RFind(chunk, "."), Max(RFind(chunk, "?"), RFind(chunk, "!")))

\* a window that looks for a sentence boundary even when it reaches the end
\* of the text
Window_AlwaysTruncate(t, s, cs) ==
    LET end == s + cs
        chunk == PySlice(t, s, end)
        last_period == LastTerminator(chunk)
    IN  IF 2 * last_period > cs
        THEN [chunk |-> Take(chunk, last_period + 1), end |-> s + last_period + 1]
        ELSE [chunk |-> chunk, end |-> end]

\* a window that also truncates at a terminator exactly at half of chunk_size
Window_AtOrPast(t, s, cs) ==
    LET end == s + cs
        chunk == PySlice(t, s, end)
        last_period == LastTerminator(chunk)
    IN  IF end < Len(t) /\ 2 * last_period >= cs
        THEN [chunk |-> Take(chunk, last_period + 1), end |-> s + last_period + 1]
        ELSE [chunk |-> chunk, end |-> end]

\* one window of _chunk_text starting at cursor s: the chunk cut from the
\* text and the end of the window, after the sentence-boundary adjustment
Window(t, s, cs) ==
    LET end == s + cs
        chunk == PySlice(t, s, end)
        last_period == LastTerminator(chunk)
    IN  IF end < Len(t) /\ 2 * last_period > cs
        THEN [chunk |-> Take(chunk, last_period + 1), end |-> s + last_period + 1]
        ELSE [chunk |-> chunk, end |-> end]

\* the DocumentChunk objects process_text builds from the chunk list
DocumentChunks(cs) ==
    [i \in 1..Len(cs) |->
        [text |-> cs[i], chunk_id |-> i - 1, total_chunks |-> Len(cs),
         source |-> "source"]]

\* chunks.append(...); the model keeps the first MaxChunks chunks
Appended(cs, chunk) == IF Len(cs) < MaxChunks THEN Append(cs, chunk) ELSE cs

\* process_text is called and enters _chunk_text
ProcessText ==
    /\ dp_pc = "ready"
    /\ text' \in Texts
    /\ start' = 0
    /\ chunks' = <<>>
    /\ visited' = {}
    /\ dp_pc' = "loop"
    /\ UNCHANGED <<chunk_size, chunk_overlap, dp_result, pvars, qvars, svars, xvars>>

\* one iteration of `while start < len(text)`; on the break, process_text
\* wraps the chunks and returns
ChunkStep ==
    /\ dp_pc = "loop"
    /\ start < Len(text)
    /\ LET w == Window(text, start, chunk_size)
           next_chunks == Appended(chunks, Strip(w.chunk))
       IN  /\ chunks' = next_chunks
           /\ visited' = visited \cup {start}
           /\ start' = w.end - chunk_overlap
           /\ IF w.end >= Len(text)
              THEN /\ dp_pc' = "done"
                   /\ dp_result' = DocumentChunks(next_chunks)
              ELSE /\ dp_pc' = "loop"
                   /\ dp_result' = dp_result
    /\ UNCHANGED <<chunk_size, chunk_overlap, text, pvars, qvars, svars, xvars>>

\* the loop condition is false on entry: process_text returns what it has
ChunkExit ==
    /\ dp_pc = "loop"
    /\ ~(start < Len(text))
    /\ dp_pc' = "done"
    /\ dp_result' = DocumentChunks(chunks)
    /\ UNCHANGED <<chunk_size, chunk_overlap, text, start, chunks, visited, pvars, qvars, svars, xvars>>

ChunkNext ==
    \/ Construct
    \/ ProcessText
    \/ ChunkStep
    \/ ChunkExit

SpecChunk == Init /\ [][ChunkNext]_vars

(***************************************************************************)
(* The ingestion scenario: a 2500-character text chunked by a              *)
(* DocumentProcessor built with the default parameters, then               *)
(* generate_chunk_ids.                                                     *)
(***************************************************************************)
\* offsets at which the scenario text may carry a sentence terminator: the
\* edges of the text, of the untruncated windows [0,1000), [800,1800),
\* [1600,2600) and of their second halves
TerminatorOffsets == {0, 500, 501, 600, 998, 999, 1000, 1300, 1301, 1799, 1800, 2499}

\* the 2500-character text whose terminators are at the offsets in S
ScenarioText(S) == [i \in 1..2500 |-> IF (i - 1) \in S THEN "." ELSE "a"]

ScenarioTexts ==
    {ScenarioText(S) : S \in {T \in SUBSET TerminatorOffsets : Cardinality(T) <= MaxTerminators}}

\* document ids handed to generate_chunk_ids
DocumentIds == {<<"d", "o", "c", "_", "1">>, <<"d", "2">>}

\* DocumentProcessor() with the defaults of __init__
ConstructDefault ==
    /\ dp_pc = "none"
    /\ chunk_size' = DefaultChunkSize
    /\ chunk_overlap' = DefaultChunkOverlap
    /\ dp_pc' = "ready"
    /\ UNCHANGED <<text, start, chunks, visited, dp_result, pvars, qvars, svars, xvars>>

\* process_text is called on a scenario text and enters _chunk_text
ProcessScenarioText ==
    /\ dp_pc = "ready"
    /\ text' \in ScenarioTexts
    /\ start' = 0
    /\ chunks' = <<>>
    /\ visited' = {}
    /\ dp_pc' = "loop"
    /\ UNCHANGED <<chunk_size, chunk_overlap, dp_result, pvars, qvars, svars, xvars>>

\* ids that number the chunks by their position in the list
ChunkIds_Positional(doc_chunks, d) ==
    [i \in 1..Len(doc_chunks) |-> d \o <<"_", "c", "h", "u", "n", "k", "_">> \o Decimal(i)]

\* f"{document_id}_chunk_{chunk.chunk_id}" for each chunk
ChunkIds(doc_chunks, d) ==
    [i \in 1..Len(doc_chunks) |->
        d \o <<"_", "c", "h", "u", "n", "k", "_">> \o Decimal(doc_chunks[i].chunk_id)]

\* generate_chunk_ids on the chunks process_text returned
GenerateChunkIds ==
    /\ dp_pc = "done"
    /\ document_id' \in DocumentIds
    /\ chunk_ids' = ChunkIds(dp_result, document_id')
    /\ dp_pc' = "ids"
    /\ UNCHANGED <<chunk_size, chunk_overlap, text, start, chunks, visited, dp_result,
                   pvars, qvars, svars, mvars, vvars, avars, cvars, hvars, bvars, uvars>>

ScenarioNext ==
    \/ ConstructDefault
    \/ ProcessScenarioText
    \/ ChunkStep
    \/ GenerateChunkIds

SpecScenario == Init /\ [][ScenarioNext]_vars

(***************************************************************************)
(* A DocumentProcessor whose overlap is a large part of its chunk size     *)
(* (chunk_overlap < chunk_size all the same), on texts longer than one     *)
(* window.                                                                 *)
(***************************************************************************)
\* texts of LongTextLen characters with at most MaxTerminators terminators
LongTexts ==
    {[i \in 1..LongTextLen |-> IF (i - 1) \in S THEN "." ELSE "a"] :
        S \in {T \in SUBSET (0..(LongTextLen - 1)) : Cardinality(T) <= MaxTerminators}}

\* DocumentProcessor(chunk_size=10, chunk_overlap=8)
ConstructHighOverlap ==
    /\ dp_pc = "none"
    /\ chunk_size' = HighChunkSize
    /\ chunk_overlap' = HighChunkOverlap
    /\ dp_pc' = "ready"
    /\ UNCHANGED <<text, start, chunks, visited, dp_result, pvars, qvars, svars, xvars>>

\* process_text is called on a long text and enters _chunk_text
ProcessLongText ==
    /\ dp_pc = "ready"
    /\ text' \in LongTexts
    /\ start' = 0
    /\ chunks' = <<>>
    /\ visited' = {}
    /\ dp_pc' = "loop"
    /\ UNCHANGED <<chunk_size, chunk_overlap, dp_result, pvars, qvars, svars, xvars>>

HighOverlapNext ==
    \/ ConstructHighOverlap
    \/ ProcessLongText
    \/ ChunkStep

SpecHighOverlap == Init /\ [][HighOverlapNext]_vars

(***************************************************************************)
(* VectorMetadata.to_dict / from_dict (vector_db/base.py).                 *)
(* A datetime is a record of its second, its microsecond and its tzinfo    *)
(* (the date, hour and minute are the same for all of them and are the     *)
(* leading "D" of the ISO string).  None is the string "None".             *)
(***************************************************************************)
None == "None"

\* the fields of the model class (cls.model_fields.keys())
KnownFields ==
    {"text", "source", "chunk_id", "total_chunks", "category", "tags",
     "created_at", "updated_at", "extras"}

DateTimes == [second : {7}, microsecond : {0, 250}, tzinfo : {"UTC", None}]

\* n as a decimal of at least w digits, zero-padded on the left
RECURSIVE Padded(_, _)
Padded(n, w) ==
    IF w <= 1 THEN Decimal(n)
    ELSE IF n < 10 THEN [i \in 1..(w - 1) |-> "0"] \o <<DigitChar(n)>>
    ELSE Padded(n \div 10, w - 1) \o <<DigitChar(n % 10)>>

\* datetime.isoformat(): seconds, the microseconds only when they are not
\* zero, the UTC offset only when the datetime is aware
IsoFormat(dt) ==
    <<"D", ":">> \o Padded(dt.second, 2)
    \o (IF dt.microsecond /= 0 THEN <<".">> \o Padded(dt.microsecond, 6) ELSE <<>>)
    \o (IF dt.tzinfo = "UTC" THEN <<"+", "0", "0", ":", "0", "0">> ELSE <<>>)

DigitValue(c) == CHOOSE d \in 0..9 : DigitChar(d) = c

RECURSIVE ParseDecimal(_)
\* int(s) for a string of digits
ParseDecimal(s) ==
    IF s = <<>> THEN 0
    ELSE 10 * ParseDecimal(SubSeq(s, 1, Len(s) - 1)) + DigitValue(s[Len(s)])

\* datetime.fromisoformat(s) for a string isoformat() produced
FromIsoFormat(s) ==
    LET has_fraction == Len(s) >= 5 /\ s[5] = "."
        rest == IF has_fraction THEN 11 ELSE 4
    IN  [second |-> ParseDecimal(SubSeq(s, 3, 4)),
         microsecond |-> IF has_fraction THEN ParseDecimal(SubSeq(s, 6, 11)) ELSE 0,
         tzinfo |-> IF Len(s) > rest /\ s[rest + 1] = "+" THEN "UTC" ELSE None]

\* keys and values of the extras of the objects tried: a free key, and keys
\* that are also names of fields of the class
ExtrasValue ==
    [lang |-> "en", text |-> <<"o">>, category |-> "code", extras |-> "e",
     created_at |-> "yesterday"]

ExtrasMaps == {[k \in K |-> ExtrasValue[k]] : K \in SUBSET (DOMAIN ExtrasValue)}

\* the VectorMetadata objects tried
Metadatas ==
    [text : {<<"t">>}, source : {None, "a.txt"}, chunk_id : {0}, total_chunks : {1},
     category : {None, "docs"}, tags : {<<>>, <<"py">>},
     created_at : DateTimes, updated_at : {[second |-> 9, microsecond |-> 0, tzinfo |-> "UTC"]},
     extras : ExtrasMaps]

\* self.model_dump() without "extras", then data.update(extras): a key of
\* extras replaces the field of the same name
Merged(m) ==
    [k \in (KnownFields \ {"extras"}) \cup DOMAIN m.extras |->
        IF k \in DOMAIN m.extras THEN m.extras[k] ELSE m[k]]

\* data["created_at"].isoformat() is called on whatever the merge left
\* there: a str has no isoformat
ToDictRaises(m) == {"created_at", "updated_at"} \cap DOMAIN m.extras /= {}

\* VectorMetadata.to_dict
ToDict(m) ==
    LET data == Merged(m)
    IN  [k \in DOMAIN data |->
            IF k \in {"created_at", "updated_at"} THEN IsoFormat(data[k]) ELSE data[k]]

\* VectorMetadata.from_dict
FromDict(data) ==
    LET known_data == [k \in DOMAIN data \cap KnownFields |-> data[k]]
        extras_data == [k \in DOMAIN data \ KnownFields |-> data[k]]
    IN  [k \in KnownFields |->
            IF k = "extras" THEN extras_data
            ELSE IF k \in {"created_at", "updated_at"} THEN FromIsoFormat(known_data[k])
            ELSE known_data[k]]

\* VectorMetadata(...)
MakeMetadata ==
    /\ rt_pc = "idle"
    /\ rt_meta' \in Metadatas
    /\ rt_pc' = "made"
    /\ UNCHANGED <<rt_data, rt_back, pvars, qvars, svars, dvars, ivars, vvars, avars, cvars, hvars, bvars, uvars>>

\* m.to_dict()
ToDictCall ==
    /\ rt_pc = "made"
    /\ IF ToDictRaises(rt_meta)
       THEN /\ rt_pc' = "raised"
            /\ rt_data' = rt_data
       ELSE /\ rt_pc' = "encoded"
            /\ rt_data' = ToDict(rt_meta)
    /\ UNCHANGED <<rt_meta, rt_back, pvars, qvars, svars, dvars, ivars, vvars, avars, cvars, hvars, bvars, uvars>>

\* VectorMetadata.from_dict(data)
FromDictCall ==
    /\ rt_pc = "encoded"
    /\ rt_back' = FromDict(rt_data)
    /\ rt_pc' = "decoded"
    /\ UNCHANGED <<rt_meta, rt_data, pvars, qvars, svars, dvars, ivars, vvars, avars, cvars, hvars, bvars, uvars>>

MetadataNext ==
    \/ MakeMetadata
    \/ ToDictCall
    \/ FromDictCall

SpecMetadata == Init /\ [][MetadataNext]_vars

(***************************************************************************)
(* The vector stores (vector_db/stores/qdrant.py, pgvector.py,             *)
(* weaviate.py).  The backend keeps one point per id; what a vendor call   *)
(* does is taken from the call the adapter makes.  Vectors are unit        *)
(* vectors, so the cosine similarity of two of them is their dot product.  *)
(***************************************************************************)
Providers == {"qdrant", "pgvector", "weaviate"}

StoreIds == {"x", "y"}

Vectors == {<<1, 0>>, <<0, 1>>}

\* cosine similarity of two unit vectors, in hundredths
Similarity(v, q) == 100 * (v[1] * q[1] + v[2] * q[2])

\* the metadata objects upserted: two categories, one with an extras key
StoreMetadatas ==
    {[text |-> <<"t">>, source |-> "a.txt", chunk_id |-> 0, total_chunks |-> 1,
      category |-> c, tags |-> <<>>,
      created_at |-> [second |-> 7, microsecond |-> 0, tzinfo |-> "UTC"],
      updated_at |-> [second |-> 9, microsecond |-> 0, tzinfo |-> "UTC"],
      extras |-> IF c = "code" THEN [lang |-> "en"] ELSE [k \in {} |-> "en"]]
     : c \in {"docs", "code"}}

\* the list a, b, a, ... of length m
Alternating(a, b, m) == [i \in 1..m |-> IF i % 2 = 1 THEN a ELSE b]

\* the vectors argument of upsert: only its length varies
VectorLists == {Alternating(<<1, 0>>, <<0, 1>>, m) : m \in 0..MaxBatch}

\* the metadata argument of upsert: one object repeated or two in turn
MetadataLists ==
    {Alternating(a, b, m) : a \in StoreMetadatas, b \in StoreMetadatas, m \in 0..MaxBatch}

\* the ids argument of upsert and of delete: one id repeated or two in turn
IdLists == {Alternating(a, b, m) : a \in StoreIds, b \in StoreIds, m \in 0..MaxBatch}

\* a filters dict, in insertion order; a condition is a key with either one
\* value (any = FALSE) or a list of values (any = TRUE).  None and {} are <<>>
Filters ==
    {<<>>,
     <<[key |-> "category", any |-> FALSE, values |-> <<"docs">>]>>,
     <<[key |-> "lang", any |-> FALSE, values |-> <<"en">>]>>,
     <<[key |-> "category", any |-> TRUE, values |-> <<"code", "blog">>]>>,
     <<[key |-> "category", any |-> FALSE, values |-> <<"docs">>],
       [key |-> "lang", any |-> FALSE, values |-> <<"en">>]>>}

\* what the adapter hands to the backend for one (id, vector, metadata)
StoredPoint(provider, id, v, m) ==
    CASE provider = "qdrant" ->
            [id |-> id, vector |-> v, payload |-> ToDict(m)]
      [] provider = "pgvector" ->
            [id |-> id, vector |-> v, text |-> m.text, source |-> m.source,
             category |-> m.category, metadata |-> ToDict(m),
             created_at |-> m.created_at]
      [] provider = "weaviate" ->
            [uuid |-> id, vector |-> v, properties |-> ToDict(m)]

\* the flat metadata dict of a stored point
PayloadOf(provider, pt) ==
    CASE provider = "qdrant" -> pt.payload
      [] provider = "pgvector" -> pt.metadata
      [] provider = "weaviate" -> pt.properties

\* a flat record satisfies a condition: it has the key and its value is the
\* condition's value, or one of the condition's values
Matches(fields, cond) ==
    /\ cond.key \in DOMAIN fields
    /\ IF cond.any
       THEN \E i \in 1..Len(cond.values) : fields[cond.key] = cond.values[i]
       ELSE fields[cond.key] = cond.values[1]

MatchesAll(fields, filters) == \A i \in 1..Len(filters) : Matches(fields, filters[i])

\* count(): number of stored points
Count(points) == Cardinality(DOMAIN points)

\* the record of a call, all fields present
Call(op, lens, ids, filters, existed, ok, ret, raised, results) ==
    [op |-> op, lens |-> lens, ids |-> ids, filters |-> filters, existed |-> existed,
     ok |-> ok, ret |-> ret, raised |-> raised, results |-> results]

\* one of the adapters is constructed; the backend may hold the collection
\* already (empty)
ConstructStore ==
    /\ vs_provider = "none"
    /\ vs_provider' \in Providers
    /\ vs_exists' \in BOOLEAN
    /\ UNCHANGED <<vs_points, vs_before, vs_call, vs_ncalls, pvars, qvars, svars, dvars,
                   ivars, mvars, avars, cvars, hvars, bvars, uvars>>

\* the points of a collection that holds nothing
NoPoints == [i \in {} |-> <<>>]

\* the boolean create_collection returns: the qdrant and weaviate adapters
\* ask collection_exists first, the pgvector adapter issues CREATE ... IF NOT
\* EXISTS and returns True
CreateReturns(provider, exists) ==
    IF provider = "pgvector" THEN TRUE ELSE ~exists

\* create_collection
CreateCollection ==
    /\ vs_provider \in Providers
    /\ vs_ncalls < MaxStoreCalls
    /\ vs_exists' = TRUE
    /\ vs_points' = IF vs_exists THEN vs_points ELSE NoPoints
    /\ vs_before' = vs_points
    /\ vs_call' = Call("create_collection", <<0, 0, 0>>, <<>>, <<>>, vs_exists,
                       CreateReturns(vs_provider, vs_exists), 0, "none", <<>>)
    /\ vs_ncalls' = vs_ncalls + 1
    /\ UNCHANGED <<vs_provider, pvars, qvars, svars, dvars, ivars, mvars, avars, cvars, hvars, bvars, uvars>>

\* delete_collection: the collection and its points are dropped
DeleteCollection ==
    /\ vs_provider \in Providers
    /\ vs_ncalls < MaxStoreCalls
    /\ vs_exists' = FALSE
    /\ vs_points' = NoPoints
    /\ vs_before' = vs_points
    /\ vs_call' = Call("delete_collection", <<0, 0, 0>>, <<>>, <<>>, vs_exists,
                       TRUE, 0, "none", <<>>)
    /\ vs_ncalls' = vs_ncalls + 1
    /\ UNCHANGED <<vs_provider, pvars, qvars, svars, dvars, ivars, mvars, avars, cvars, hvars, bvars, uvars>>

\* a length check that compares all three lengths
UpsertRejects_AllLengths(lv, lm, li) == lv /= lm \/ lm /= li

\* len(vectors) != len(metadata) != len(ids): a chained comparison, true
\* when both neighbouring pairs differ
UpsertRejects(lv, lm, li) == lv /= lm /\ lm /= li

\* the points zip(ids, vectors, metadata) writes: as many as the shortest
\* list, a later entry replacing an earlier one with the same id
Zipped(provider, vectors, metadata, ids) ==
    LET n == Min(Len(ids), Min(Len(vectors), Len(metadata)))
        last(id) == CHOOSE j \in 1..n : ids[j] = id /\ \A k \in (j + 1)..n : ids[k] /= id
    IN  [id \in {ids[j] : j \in 1..n} |->
            StoredPoint(provider, id, vectors[last(id)], metadata[last(id)])]

\* insert-or-replace by id
Merge(points, new) ==
    [id \in DOMAIN points \cup DOMAIN new |->
        IF id \in DOMAIN new THEN new[id] ELSE points[id]]

\* the number upsert returns: len(points) in the qdrant adapter,
\* len(vectors) in the others
UpsertReturns(provider, vectors, metadata, ids) ==
    IF provider = "qdrant"
    THEN Min(Len(ids), Min(Len(vectors), Len(metadata)))
    ELSE Len(vectors)

\* upsert(vectors, metadata, ids)
Upsert ==
    /\ vs_provider \in Providers
    /\ vs_ncalls < MaxStoreCalls
    /\ \E vectors \in VectorLists, metadata \in MetadataLists, ids \in IdLists :
          LET lens == <<Len(vectors), Len(metadata), Len(ids)>>
              raised == IF UpsertRejects(lens[1], lens[2], lens[3]) THEN "ValueError"
                        ELSE IF ~vs_exists THEN "BackendError"
                        ELSE "none"
          IN  /\ vs_points' = IF raised = "none"
                                THEN Merge(vs_points, Zipped(vs_provider, vectors, metadata, ids))
                                ELSE vs_points
              /\ vs_call' = Call("upsert", lens, ids, <<>>, vs_exists, FALSE,
                                 IF raised = "none"
                                 THEN UpsertReturns(vs_provider, vectors, metadata, ids)
                                 ELSE 0,
                                 raised, <<>>)
    /\ vs_before' = vs_points
    /\ vs_ncalls' = vs_ncalls + 1
    /\ UNCHANGED <<vs_provider, vs_exists, pvars, qvars, svars, dvars, ivars, mvars, avars, cvars, hvars, bvars, uvars>>

\* attributes of the pgvector adapter's table model
PgColumns == {"id", "vector", "text", "source", "category", "metadata", "created_at"}

\* a filters dict has a list value the backend is asked to compare with:
\* MatchValue(any=...) in the qdrant adapter, column == [...] in the
\* pgvector adapter, .equal([...]) on the first key in the weaviate adapter
ListCompared(provider, filters) ==
    CASE provider = "qdrant" -> \E i \in 1..Len(filters) : filters[i].any
      [] provider = "pgvector" ->
            \E i \in 1..Len(filters) : filters[i].any /\ filters[i].key \in PgColumns
      [] provider = "weaviate" -> filters /= <<>> /\ filters[1].any

\* a flat record has the key with exactly the condition's value; a list
\* value, where the backend accepts the comparison at all, equals no scalar
Equals(fields, cond) ==
    /\ cond.key \in DOMAIN fields
    /\ ~cond.any
    /\ fields[cond.key] = cond.values[1]

\* the ids of the points a non-empty filters dict selects, as the adapter
\* translates it: every key in the qdrant adapter (_build_filter), the keys
\* that are attributes of the table model in the pgvector adapter, the first
\* key in the weaviate adapter (_build_filter)
Selected(provider, points, filters) ==
    CASE provider = "qdrant" ->
            {id \in DOMAIN points : MatchesAll(points[id].payload, filters)}
      [] provider = "pgvector" ->
            {id \in DOMAIN points :
                \A i \in 1..Len(filters) :
                    filters[i].key \in PgColumns => Equals(points[id], filters[i])}
      [] provider = "weaviate" ->
            {id \in DOMAIN points : Equals(points[id].properties, filters[1])}

\* the points a search ranks: the qdrant and pgvector adapters pass the
\* filters on, the weaviate adapter does not use its filters argument
Candidates(provider, points, filters) ==
    IF filters = <<>> \/ provider = "weaviate" THEN DOMAIN points
    ELSE Selected(provider, points, filters)

\* the rankings a backend may return: the top_k most similar candidates,
\* most similar first, ties in either order
Rankings(points, cands, q, k) ==
    LET n == Min(k, Cardinality(cands))
        score(id) == Similarity(points[id].vector, q)
    IN  {r \in [1..n -> cands] :
            /\ \A i, j \in 1..n : i < j => r[i] /= r[j] /\ score(r[i]) >= score(r[j])
            /\ \A id \in cands :
                  (\A i \in 1..n : r[i] /= id) => \A i \in 1..n : score(r[i]) >= score(id)}

\* the SearchResult built from a stored point
ResultOf(provider, pt, q) ==
    LET metadata == FromDict(PayloadOf(provider, pt))
    IN  [id |-> IF provider = "weaviate" THEN pt.uuid ELSE pt.id,
         score |-> Similarity(pt.vector, q),
         text |-> IF provider = "pgvector" THEN pt.text ELSE metadata.text,
         metadata |-> metadata]

\* search(query_vector, top_k, filters)
Search ==
    /\ vs_provider \in Providers
    /\ vs_ncalls < MaxStoreCalls
    /\ \E q \in Vectors, k \in {1, MaxBatch}, filters \in Filters :
          \/ /\ ~vs_exists
             /\ vs_call' = Call("search", <<0, 0, 0>>, <<>>, filters, vs_exists, FALSE,
                                0, "BackendError", <<>>)
          \/ /\ vs_exists
             /\ vs_provider /= "weaviate"
             /\ filters /= <<>>
             /\ ListCompared(vs_provider, filters)
             /\ vs_call' = Call("search", <<0, 0, 0>>, <<>>, filters, vs_exists, FALSE,
                                0, "BackendError", <<>>)
          \/ /\ vs_exists
             /\ \E r \in Rankings(vs_points, Candidates(vs_provider, vs_points, filters), q, k) :
                   vs_call' = Call("search", <<0, 0, 0>>, <<>>, filters, vs_exists, FALSE,
                                   0, "none",
                                   [i \in 1..Len(r) |-> ResultOf(vs_provider, vs_points[r[i]], q)])
    /\ vs_before' = vs_points
    /\ vs_ncalls' = vs_ncalls + 1
    /\ UNCHANGED <<vs_provider, vs_exists, vs_points, pvars, qvars, svars, dvars, ivars, mvars, avars, cvars, hvars, bvars, uvars>>

\* values the backend reports as operation_id
OperationIds == {0, 1}

\* a branch selection that takes the ids branch whenever no filters are given
DeleteBranch_IdsDefault(ids, filters) ==
    IF ids = <<>> /\ filters /= <<>> THEN "filters" ELSE "ids"

\* `if ids: ... elif filters: ... else: raise ValueError`: an empty list and
\* an empty dict are false
DeleteBranch(ids, filters) ==
    IF ids /= <<>> THEN "ids"
    ELSE IF filters /= <<>> THEN "filters"
    ELSE "else"

\* the outcomes of delete(ids, filters): by id, by what the translated
\* filter selects, or ValueError
DeleteOutcomes(provider, exists, points, ids, filters) ==
    LET without(gone) == [id \in DOMAIN points \ gone |-> points[id]]
        named == {ids[i] : i \in 1..Len(ids)}
        chosen == Selected(provider, points, filters)
        failed == {[raised |-> "BackendError", points |-> points, ret |-> 0]}
        branch == DeleteBranch(ids, filters)
    IN  IF branch = "else"
        THEN {[raised |-> "ValueError", points |-> points, ret |-> 0]}
        ELSE IF ~exists THEN failed
        ELSE IF branch = "ids"
        THEN {[raised |-> "none", points |-> without(named),
               ret |-> IF provider = "pgvector"
                       THEN Cardinality(named \cap DOMAIN points)
                       ELSE Len(ids)]}
        ELSE (IF ListCompared(provider, filters) THEN failed ELSE {})
             \cup {[raised |-> "none", points |-> without(chosen), ret |-> n] :
                     n \in IF provider = "qdrant" THEN OperationIds
                           ELSE {Cardinality(chosen)}}

\* delete(ids, filters)
Delete ==
    /\ vs_provider \in Providers
    /\ vs_ncalls < MaxStoreCalls
    /\ \E ids \in IdLists, filters \in Filters :
          \E o \in DeleteOutcomes(vs_provider, vs_exists, vs_points, ids, filters) :
             /\ vs_points' = o.points
             /\ vs_call' = Call("delete", <<0, 0, 0>>, ids, filters, vs_exists, FALSE,
                                o.ret, o.raised, <<>>)
    /\ vs_before' = vs_points
    /\ vs_ncalls' = vs_ncalls + 1
    /\ UNCHANGED <<vs_provider, vs_exists, pvars, qvars, svars, dvars, ivars, mvars, avars, cvars, hvars, bvars, uvars>>

StoreNext ==
    \/ ConstructStore
    \/ CreateCollection
    \/ DeleteCollection
    \/ Upsert
    \/ Search
    \/ Delete

SpecStore == Init /\ [][StoreNext]_vars

(***************************************************************************)
(* upload_document (api/v1/documents.py): the file is decoded, given a     *)
(* document id, chunked with the configured sizes, embedded and upserted   *)
(* under its chunk ids.  The handler deletes nothing.  A chunk id          *)
(* f"{document_id}_chunk_{chunk_id}" is kept as its two holes, the         *)
(* document id being the abstract digest of create_document_id.            *)
(***************************************************************************)
\* uploaded files: all "a", of one, two and three chunks; those longer than
\* IdPrefixLen agree on their first IdPrefixLen characters
UploadLengths == {500, 1200, 2500}
UploadContents == {[i \in 1..n |-> "a"] : n \in UploadLengths}

RECURSIVE ChunkTexts(_, _, _, _)
\* _chunk_text from cursor s on, for texts on which its loop terminates
ChunkTexts(t, s, cs, ov) ==
    IF ~(s < Len(t)) THEN <<>>
    ELSE LET w == Window(t, s, cs)
         IN  IF w.end >= Len(t) THEN <<Strip(w.chunk)>>
             ELSE <<Strip(w.chunk)>> \o ChunkTexts(t, w.end - ov, cs, ov)

\* generate_chunk_ids
UploadChunkIds(doc_chunks, doc_id) ==
    [i \in 1..Len(doc_chunks) |-> [document |-> doc_id, chunk |-> doc_chunks[i].chunk_id]]

\* the records upsert writes for the chunks of one upload
UploadedPoints(doc_chunks, ids, n) ==
    [id \in {ids[i] : i \in 1..Len(ids)} |->
        LET i == CHOOSE j \in 1..Len(ids) : ids[j] = id
        IN  [chunk_id |-> doc_chunks[i].chunk_id,
             total_chunks |-> doc_chunks[i].total_chunks,
             length |-> Len(doc_chunks[i].text),
             upload |-> n]]

\* an upload that first deletes the chunks stored under the document id
UploadStored_Replacing(points, doc_id, new) ==
    Merge([id \in {j \in DOMAIN points : j.document /= doc_id} |-> points[id]], new)

\* await rag.vector_store.upsert(...): insert or replace by id
UploadStored(points, doc_id, new) == Merge(points, new)

\* one request to upload_document; embed or upsert may fail, and then
\* nothing is stored
UploadDocument ==
    /\ up_count < MaxUploads
    /\ \E filename \in IdSources, content \in UploadContents,
          fault \in {"none", "EmbedError", "UpsertError"} :
          LET doc_id == DocumentId(filename, content)
              doc_chunks == DocumentChunks(ChunkTexts(content, 0, RagChunkSize, RagChunkOverlap))
              chunk_ids_ == UploadChunkIds(doc_chunks, doc_id)
              new == UploadedPoints(doc_chunks, chunk_ids_, up_count + 1)
          IN  IF fault = "none"
              THEN /\ up_points' = UploadStored(up_points, doc_id, new)
                   /\ up_latest' = [d \in DOMAIN up_latest \cup {doc_id} |->
                                      IF d = doc_id THEN Len(doc_chunks) ELSE up_latest[d]]
              ELSE UNCHANGED <<up_points, up_latest>>
    /\ up_count' = up_count + 1
    /\ UNCHANGED <<pvars, qvars, svars, dvars, ivars, mvars, vvars, avars, cvars, hvars, bvars>>

UploadNext == UploadDocument

SpecUpload == Init /\ [][UploadNext]_vars

(***************************************************************************)
(* LLMClient.stream of the provider adapters (ai_core/llm/openai.py,       *)
(* ollama.py, gemini.py).  The adapter reads the backend's stream chunk    *)
(* by chunk and yields LLMStreamChunks.                                    *)
(***************************************************************************)
Adapters == {"openai", "ollama", "gemini"}

\* the chunks a backend may deliver.  openai: whether choices is non-empty,
\* choices[0].delta.content (None is ""), choices[0].finish_reason and
\* usage.total_tokens; ollama: message.content, done and done_reason;
\* gemini: text
BackendChunks(provider) ==
    CASE provider = "openai" ->
            [choices : BOOLEAN, content : {"", "d"}, finish_reason : {None, "stop"},
             usage : {NoUsage, 5}]
      [] provider = "ollama" ->
            [content : {"", "d"}, done : BOOLEAN, done_reason : {"absent", "length"}]
      [] provider = "gemini" ->
            [text : {"", "d"}]

\* LLMStreamChunk(delta, finish_reason, usage)
StreamChunk(delta, finish_reason, usage) ==
    [delta |-> delta, finish_reason |-> finish_reason, usage |-> usage]

\* what the body of `async for chunk in stream` yields for one backend chunk
Yielded(provider, chunk) ==
    CASE provider = "openai" ->
            IF ~chunk.choices THEN <<>>
            ELSE (IF chunk.content /= ""
                  THEN <<StreamChunk(chunk.content, chunk.finish_reason, NoUsage)>> ELSE <<>>)
                 \o (IF chunk.finish_reason /= None
                     THEN <<StreamChunk("", chunk.finish_reason, chunk.usage)>> ELSE <<>>)
      [] provider = "ollama" ->
            (IF chunk.content /= "" THEN <<StreamChunk(chunk.content, None, NoUsage)>> ELSE <<>>)
            \o (IF chunk.done
                THEN <<StreamChunk("", IF chunk.done_reason = "absent" THEN "stop"
                                       ELSE chunk.done_reason, 5)>>
                ELSE <<>>)
      [] provider = "gemini" ->
            IF chunk.text /= "" THEN <<StreamChunk(chunk.text, None, NoUsage)>> ELSE <<>>

\* what the adapter yields after the backend's stream is exhausted
YieldedAtEnd(provider) ==
    IF provider = "gemini" THEN <<StreamChunk("", "stop", NoUsage)>> ELSE <<>>

\* stream() is called: the backend's stream is opened
AdapterStart ==
    /\ ad_provider = "none"
    /\ \E provider \in Adapters :
          /\ ad_provider' = provider
          /\ ad_backend' \in UNION {[1..n -> BackendChunks(provider)] : n \in 0..MaxBackendChunks}
    /\ UNCHANGED <<ad_read, ad_out, ad_ended, pvars, qvars, svars, dvars, ivars, mvars, vvars, cvars, hvars, bvars, uvars>>

\* one iteration of `async for chunk in stream`
AdapterChunk ==
    /\ ad_provider \in Adapters
    /\ ad_read < Len(ad_backend)
    /\ ad_read' = ad_read + 1
    /\ ad_out' = ad_out \o Yielded(ad_provider, ad_backend[ad_read + 1])
    /\ UNCHANGED <<ad_provider, ad_backend, ad_ended, pvars, qvars, svars, dvars, ivars,
                   mvars, vvars, cvars, hvars, bvars, uvars>>

\* the backend's stream is exhausted: the loop ends and the generator returns
AdapterEnd ==
    /\ ad_provider \in Adapters
    /\ ad_read = Len(ad_backend)
    /\ ~ad_ended
    /\ ad_out' = ad_out \o YieldedAtEnd(ad_provider)
    /\ ad_ended' = TRUE
    /\ UNCHANGED <<ad_provider, ad_backend, ad_read, pvars, qvars, svars, dvars, ivars,
                   mvars, vvars, cvars, hvars, bvars, uvars>>

AdapterNext ==
    \/ AdapterStart
    \/ AdapterChunk
    \/ AdapterEnd

SpecAdapter == Init /\ [][AdapterNext]_vars

(***************************************************************************)
(* Properties of query_stream.                                             *)
(***************************************************************************)
IsTerminal(event) == event.type \in {"done", "error"}
EventCount(events, type) == Cardinality({i \in 1..Len(events) : events[i].type = type})
RetrievalFaults == {"EmbedError", "SearchError"}
\* the retrieval phase of the stream run has succeeded
SRetrieved == s_pc \notin {"idle", "embed", "search"} /\ s_fault \notin RetrievalFaults

StreamFailureBecomesError ==
    s_fault = "StreamError" =>
        /\ s_raised = "none"
        /\ s_events[Len(s_events)] = ErrorEvent("StreamError")
        /\ EventCount(s_events, "error") = 1
        /\ EventCount(s_events, "done") = 0
        /\ s_events[1].type = "sources"

\* the stream failed between two deltas and the run was drained
StreamFailedMidway ==
    /\ s_pc = "closed"
    /\ s_fault = "StreamError"
    /\ EventCount(s_events, "token") = 1
    /\ Len(s_deltas) < MaxDeltas

SamePrefixSameId ==
    \A i, j \in DOMAIN id_calls :
        (/\ id_calls[i].source = id_calls[j].source
         /\ Take(id_calls[i].content, IdPrefixLen) = Take(id_calls[j].content, IdPrefixLen))
        => id_calls[i].id = id_calls[j].id

\* a later call with the same source and a content that differs only after
\* position 1000
SamePrefixDifferentTail ==
    /\ Len(id_calls) = 2
    /\ id_calls[1].source = id_calls[2].source
    /\ id_calls[1].content /= id_calls[2].content
    /\ Len(id_calls[1].content) = Len(id_calls[2].content)
    /\ Take(id_calls[1].content, IdPrefixLen) = Take(id_calls[2].content, IdPrefixLen)

\* C19: once the consumer has cancelled a query_stream run, at whatever
\* suspension point, no further token event is delivered (indeed no event at
\* all): the events are those delivered when it cancelled.
NoTokenAfterCancel ==
    s_cancelled =>
        /\ EventCount(s_events, "token") = EventCount(s_at_cancel, "token")
        /\ s_events = s_at_cancel
        /\ s_pc = "cancelled"

\* the run was cancelled between two deltas, after a token had been delivered
CancelledMidStream ==
    /\ s_cancelled
    /\ EventCount(s_at_cancel, "token") = 1
    /\ Len(s_deltas) < MaxDeltas
    /\ s_raised = "GeneratorExit"

(***************************************************************************)
(* Properties of query.                                                    *)
(***************************************************************************)
InSeq(x, seq) == \E i \in 1..Len(seq) : seq[i] = x
\* the context placed in the user message of the prompt
PromptContext(prompt) == prompt[Len(prompt)].content.context
\* number of [Source N] parts in a context
IncludedChunks(context) == Cardinality({i \in 1..Len(context) : context[i] = "["})
\* query has filtered the search results
QFiltered == q_pc \in {"complete", "returned"} \/ q_fault = "CompleteError"

\* C4: a result scoring below min_similarity is in no list of sources, is not
\* counted in context_chunks and its text is not in the prompt's context; a
\* result scoring exactly min_similarity is kept.
BelowThresholdExcluded ==
    QFiltered =>
        /\ \A k \in 1..Len(q_results) :
             LET r == q_results[k]
             IN  /\ r.score < min_similarity =>
                       /\ ~InSeq(r.id, q_response.sources)
                       /\ ~InSeq(r, q_filtered)
                       /\ ~Contains(q_context, r.text)
                       /\ ~Contains(PromptContext(q_prompt), r.text)
                 /\ r.score = min_similarity =>
                       /\ InSeq(r, q_filtered)
                       /\ q_pc = "returned" => InSeq(r.id, q_response.sources)
        /\ q_response.context_chunks <=
              Cardinality({k \in 1..Len(q_results) : q_results[k].score >= min_similarity})

\* query returned after a search that found one result below and one at the threshold
QueryMixedScores ==
    /\ q_pc = "returned"
    /\ \E k \in 1..Len(q_results) : q_results[k].score < min_similarity
    /\ \E k \in 1..Len(q_results) : q_results[k].score = min_similarity

\* C5 as stated: context_chunks is the number of chunks included in the
\* context sent to the model.
ContextChunksCountsIncluded ==
    q_pc = "returned" =>
        q_response.context_chunks = IncludedChunks(PromptContext(q_prompt))

\* C6: sources is the list of ids of the results that passed the filter, in
\* search order, whether or not the budget kept them in the context, and
\* context_chunks is its length.
SourcesAreFilteredIds ==
    q_pc = "returned" =>
        LET passed == SelectSeq(q_results, LAMBDA r : ~(r.score < min_similarity))
        IN  /\ q_response.sources = [k \in 1..Len(passed) |-> passed[k].id]
            /\ q_response.context_chunks = Len(q_response.sources)

\* query returned sources of which the budget kept some out of the context
QueryBudgetExcluded ==
    /\ q_pc = "returned"
    /\ IncludedChunks(PromptContext(q_prompt)) < Len(q_response.sources)

\* C7: with no result, or none reaching min_similarity, query still calls
\* complete once with an empty context and returns no sources and
\* context_chunks 0, failing only if a stage raised; query_stream yields a
\* sources event with an empty list and opens the provider's stream.
EmptyRetrievalStillGenerates ==
    /\ (q_pc = "returned" /\ q_filtered = <<>>) =>
          /\ Cardinality({i \in 1..Len(q_calls) : q_calls[i] = "complete"}) = 1
          /\ PromptContext(q_prompt) = <<>>
          /\ q_response.sources = <<>>
          /\ q_response.context_chunks = 0
          /\ q_response.answer = "answer"
    /\ q_pc = "raised" => q_fault /= "none"
    /\ (SRetrieved /\ s_filtered = <<>>) =>
          /\ s_events[1] = [type |-> "sources", sources |-> <<>>]
          /\ s_pc /= "yield_sources" => InSeq("stream", s_calls)

\* query returned after a search whose results were all below the threshold
QueryAllBelowThreshold ==
    /\ q_pc = "returned"
    /\ q_results /= <<>>
    /\ q_filtered = <<>>

\* C8: query invokes embed, search, complete in that order, each at most
\* once; a stage that raises ends the call at once, with no later stage and
\* no second attempt, and its exception is the one the caller gets.
QueryStagesInOrder ==
    /\ q_calls = SubSeq(<<"embed", "search", "complete">>, 1, Len(q_calls))
    /\ q_fault /= "none" =>
          /\ q_pc = "raised"
          /\ q_exc = q_fault
          /\ q_fault = CASE q_calls[Len(q_calls)] = "embed" -> "EmbedError"
                         [] q_calls[Len(q_calls)] = "search" -> "SearchError"
                         [] OTHER -> "CompleteError"
    /\ q_pc = "raised" => q_fault /= "none"

\* search raised and query surfaced the failure
QuerySearchFailed ==
    /\ q_pc = "raised"
    /\ q_fault = "SearchError"

(***************************************************************************)
(* Properties of DocumentProcessor.                                        *)
(***************************************************************************)
\* C9: with chunk_size > 0 and 0 <= chunk_overlap < chunk_size the chunking
\* loop terminates.  An iteration is a function of the cursor alone (text and
\* parameters are fixed during a call), so the loop terminates exactly when
\* it never begins an iteration at a cursor it has begun one at before.
ChunkingTerminates ==
    (dp_pc = "loop" /\ chunk_size > 0 /\ 0 <= chunk_overlap /\ chunk_overlap < chunk_size)
        => start \notin visited

\* C10: no DocumentProcessor exists with chunk_overlap >= chunk_size.
DegenerateOverlapRejected ==
    dp_pc /= "none" => chunk_overlap < chunk_size

\* the list process_text returns when the whole text is one chunk
OneChunk(t) ==
    <<[text |-> Strip(t), chunk_id |-> 0, total_chunks |-> 1, source |-> "source"]>>

\* C11 as stated: for every text with len(text) <= chunk_size, the empty text
\* included, process_text returns exactly one chunk, the stripped input, with
\* chunk index 0 and total 1.
ShortTextOneChunk ==
    (dp_pc = "done" /\ Len(text) <= chunk_size) => dp_result = OneChunk(text)

\* C11 amended: for every non-empty text with len(text) <= chunk_size,
\* process_text returns exactly one chunk, the stripped input, with chunk
\* index 0 and total 1; for the empty text it returns no chunk at all.
NonEmptyShortTextOneChunk ==
    /\ (dp_pc = "done" /\ 1 <= Len(text) /\ Len(text) <= chunk_size)
          => dp_result = OneChunk(text)
    /\ (dp_pc = "done" /\ text = <<>>) => dp_result = <<>>

\* a text that fills the window exactly, has a sentence terminator past the
\* middle of the window and whitespace at its edge, has been processed
ShortTextProcessed ==
    /\ dp_pc = "done"
    /\ Len(text) = chunk_size
    /\ 2 * LastTerminator(text) > chunk_size
    /\ LastTerminator(text) + 1 < Len(text)
    /\ Strip(text) /= text

\* the ids of a document of n chunks: <d>_chunk_0 .. <d>_chunk_(n-1)
NumberedIds(d, n) ==
    [i \in 1..n |-> d \o <<"_", "c", "h", "u", "n", "k", "_">> \o <<DigitChar(i - 1)>>]

\* the scenario of C12 has run to the end of generate_chunk_ids
ScenarioDone ==
    /\ dp_pc = "ids"
    /\ Len(text) = 2500
    /\ chunk_size = 1000
    /\ chunk_overlap = 200

\* offsets of the sentence terminators of t
Terminators(t) == {i - 1 : i \in {j \in 1..Len(t) : t[j] \in {".", "?", "!"}}}

\* C12 as stated: every 2500-character text, chunked with chunk_size 1000 and
\* chunk_overlap 200, yields exactly 3 chunks, and generate_chunk_ids yields
\* <document_id>_chunk_0, _chunk_1, _chunk_2, wherever sentence terminators
\* occur in the text.
ScenarioThreeChunks ==
    ScenarioDone =>
        /\ Len(dp_result) = 3
        /\ chunk_ids = NumberedIds(document_id, 3)

\* C12 amended: a 2500-character text none of whose sentence terminators
\* lies at an offset in 501..999 or 1301..1799 (the second halves of the
\* windows [0,1000) and [800,1800)) yields exactly 3 chunks, numbered 0, 1, 2
\* of 3; and for every text the ids are <document_id>_chunk_<i> for i from 0
\* to the number of chunks minus one.
ScenarioThreeChunksUntruncated ==
    ScenarioDone =>
        /\ chunk_ids = NumberedIds(document_id, Len(dp_result))
        /\ Terminators(text) \cap ((501..999) \cup (1301..1799)) = {}
             => /\ Len(dp_result) = 3
                /\ \A i \in 1..3 : /\ dp_result[i].chunk_id = i - 1
                                    /\ dp_result[i].total_chunks = 3

\* a scenario text with terminators, none of them in the second half of a
\* window that stops short of the end of the text, has been given its ids
ScenarioUntruncated ==
    /\ ScenarioDone
    /\ Cardinality(Terminators(text)) = 2
    /\ Terminators(text) \cap ((501..999) \cup (1301..1799)) = {}

(***************************************************************************)
(* Properties of VectorMetadata.                                           *)
(***************************************************************************)
\* C16: from_dict(to_dict(m)) = m for every VectorMetadata m, whatever keys
\* its extras contain: to_dict returns, and decoding its result gives back m.
MetadataRoundTrip ==
    /\ rt_pc /= "raised"
    /\ rt_pc = "decoded" => rt_back = rt_meta

\* the round trip of an object whose extras keys are not field names
MetadataRoundTripDisjoint ==
    (rt_pc = "decoded" /\ DOMAIN rt_meta.extras \cap KnownFields = {})
        => rt_back = rt_meta

(***************************************************************************)
(* Properties of the vector stores.                                        *)
(***************************************************************************)
\* C13: an upsert whose three lists do not all have the same length fails
\* with a validation error before any write: the stored points, and so
\* count(), are what they were before the call.
UpsertLengthMismatchRejected ==
    (vs_call.op = "upsert"
        /\ ~(vs_call.lens[1] = vs_call.lens[2] /\ vs_call.lens[2] = vs_call.lens[3]))
    => /\ vs_call.raised = "ValueError"
       /\ vs_points = vs_before
       /\ Count(vs_points) = Count(vs_before)

\* C14: delete() with neither ids nor filters fails with a validation error
\* in every store, and the stored points are what they were before the call.
DeleteNeitherRejected ==
    (vs_call.op = "delete" /\ vs_call.ids = <<>> /\ vs_call.filters = <<>>)
    => /\ vs_call.raised = "ValueError"
       /\ vs_points = vs_before

\* delete() without arguments has been called on a store that holds points
DeleteNeitherOnFilledStore ==
    /\ vs_call.op = "delete"
    /\ vs_call.ids = <<>>
    /\ vs_call.filters = <<>>
    /\ Count(vs_before) > 0

\* C15: a search with non-empty filters F that returns, returns only records
\* whose metadata matches every key of F (exactly, or by any of the listed
\* values): no returned record lacks a key of F or differs on it.
SearchHonoursFilters ==
    (vs_call.op = "search" /\ vs_call.filters /= <<>> /\ vs_call.raised = "none")
    => \A i \in 1..Len(vs_call.results) :
          MatchesAll(ToDict(vs_call.results[i].metadata), vs_call.filters)

\* C17: create_collection never fails; it returns true exactly when the
\* collection did not exist, false when it did, and in either case leaves
\* the stored points as they were.
CreateCollectionIdempotent ==
    vs_call.op = "create_collection"
    => /\ vs_call.raised = "none"
       /\ vs_call.ok = ~vs_call.existed
       /\ vs_points = vs_before
       /\ vs_exists

(***************************************************************************)
(* Properties of the provider adapters.                                    *)
(***************************************************************************)
\* the backend chunk carries the backend's end-of-stream mark
Finishing(provider, chunk) ==
    CASE provider = "openai" -> chunk.choices /\ chunk.finish_reason /= None
      [] provider = "ollama" -> chunk.done
      [] provider = "gemini" -> FALSE

\* the stream ran to its end and the backend marked the end on its last
\* chunk and nowhere else (the gemini backend has no such mark)
AdapterEndedNormally ==
    /\ ad_ended
    /\ \A i \in 1..Len(ad_backend) :
          Finishing(ad_provider, ad_backend[i]) <=> (ad_provider /= "gemini" /\ i = Len(ad_backend))
    /\ ad_provider /= "gemini" => ad_backend /= <<>>

\* C20: for every adapter and every backend stream that ends normally, the
\* chunks stream() yields contain exactly one chunk with a non-null
\* finish_reason, and it is the last one.
OneFinishReasonLast ==
    AdapterEndedNormally =>
        /\ ad_out /= <<>>
        /\ ad_out[Len(ad_out)].finish_reason /= None
        /\ \A i \in 1..(Len(ad_out) - 1) : ad_out[i].finish_reason = None

(***************************************************************************)
(* Properties of _build_context and _build_prompt.                         *)
(***************************************************************************)
\* "[Source k]", k counted from 1
SourceLabel(k) == <<"[", "S", "o", "u", "r", "c", "e", " ">> \o Decimal(k) \o <<"]">>

RECURSIVE CumulativeEstimate(_, _)
\* the sum of len(labelled text) // 4 over the first n results
CumulativeEstimate(results, n) ==
    IF n = 0 THEN 0
    ELSE CumulativeEstimate(results, n - 1)
            + (Len(SourceLabel(n)) + 1 + Len(results[n].text) + 1) \div CharsPerToken

\* the context is made of the longest prefix of results whose cumulative
\* estimate stays within budget: those texts whole, nothing of the others
IsLongestFittingPrefix(context, results, budget) ==
    \E n \in 0..Len(results) :
        /\ CumulativeEstimate(results, n) <= budget
        /\ n < Len(results) => CumulativeEstimate(results, n + 1) > budget
        /\ \A k \in 1..n :
              Contains(context, SourceLabel(k) \o <<"\n">> \o results[k].text \o <<"\n">>)
        /\ \A k \in (n + 1)..Len(results) :
              /\ ~Contains(context, SourceLabel(k))
              /\ ~Contains(context, <<results[k].id>>)

\* query has built its context; query_stream has built its context
QContextBuilt == \E k \in DOMAIN q_calls : q_calls[k] = "complete"
SContextBuilt == \E k \in DOMAIN s_calls : s_calls[k] = "stream"

\* C21: the context holds exactly the longest prefix of the filtered results
\* whose cumulative estimate (sum of len(labelled text) // 4) does not exceed
\* max_context_tokens; every included text is whole and nothing after the
\* first chunk that does not fit is included.
ContextIsLongestFittingPrefix ==
    /\ QContextBuilt => IsLongestFittingPrefix(q_context, q_filtered, max_context_tokens)
    /\ SContextBuilt => IsLongestFittingPrefix(s_context, s_filtered, max_context_tokens)

\* the first chunk does not fit and the second, alone, would
FirstChunkTooLarge ==
    /\ SContextBuilt
    /\ Len(s_filtered) = 2
    /\ CumulativeEstimate(s_filtered, 1) > max_context_tokens
    /\ CumulativeEstimate(s_filtered, 2) - CumulativeEstimate(s_filtered, 1)
          <= max_context_tokens

TokenContents(events) ==
    LET tokens == SelectSeq(events, LAMBDA e : e.type = "token")
    IN  [k \in 1..Len(tokens) |-> tokens[k].content]

\* C25: the contents of the token events are the non-empty deltas of the
\* provider's stream, in the same order, none dropped, duplicated or
\* reordered; a chunk with an empty delta produces no token event.
TokensAreNonEmptyDeltas ==
    TokenContents(s_events) = SelectSeq(s_deltas, LAMBDA d : d /= <<>>)

\* a drained run whose stream gave an empty delta, then a non-empty one
\* together with a usage
StreamWithEmptyDelta ==
    /\ s_pc = "closed"
    /\ Len(s_deltas) = 2
    /\ s_deltas[1] = <<>>
    /\ s_deltas[2] /= <<>>
    /\ s_total_tokens > 0

\* C29 as stated: every [Source N] label in the context sent to the model
\* has an N-th entry in the sources event of the run.
CitationsResolve ==
    SContextBuilt =>
        \A N \in 1..Len(s_filtered) :
            Contains(s_context, SourceLabel(N)) => N <= Len(s_events[1].sources)

(***************************************************************************)
(* Properties of chat_stream.                                              *)
(***************************************************************************)
\* the events of the SSE frames sent, in order
SentEvents == [k \in 1..Len(t_sse) |-> t_sse[k][2]]

\* C30: a chat_stream response that has run to the end holds exactly one
\* terminal SSE event, done or error, and it is the last one sent, wherever
\* the failure happened: obtaining the pipeline, retrieval, generation or
\* the transport; the error of the pipeline and the error of the transport
\* are never both sent.
ResponseOneTerminalFrame ==
    /\ \A k \in 1..(Len(t_sse) - 1) : ~IsTerminal(SentEvents[k])
    /\ t_pc = "finished" =>
         /\ t_sse /= <<>>
         /\ IsTerminal(SentEvents[Len(t_sse)])
         /\ EventCount(SentEvents, "done") + EventCount(SentEvents, "error") = 1

\* the transport failed on the done event: the response ends with the error
\* of the transport, after tokens
ResponseTransportFailedOnDone ==
    /\ t_pc = "finished"
    /\ s_events /= <<>>
    /\ s_events[Len(s_events)].type = "done"
    /\ SentEvents[Len(t_sse)] = ErrorEvent("SerializeError")
    /\ EventCount(SentEvents, "token") > 0

(***************************************************************************)
(* Properties of the chunking windows.                                     *)
(***************************************************************************)
\* an iteration of the chunking loop begins on a window that does not reach
\* the end of the text
NonFinalWindow ==
    /\ dp_pc = "loop"
    /\ start < Len(text)
    /\ start + chunk_size < Len(text)

\* offset, in the window at the cursor, of its last sentence terminator;
\* -1 if it has none
LastInWindow == LastTerminator(PySlice(text, start, start + chunk_size))

\* the iteration keeps the first n characters of the window and moves the
\* cursor to chunk_overlap before their end
WindowKept(n) ==
    /\ start' = start + n - chunk_overlap
    /\ Len(chunks) < MaxChunks =>
          chunks' = Append(chunks, Strip(Take(PySlice(text, start, start + chunk_size), n)))

\* C22 as stated: a non-final window is truncated just after its last
\* sentence terminator when that terminator lies at or past half of
\* chunk_size (offset >= chunk_size / 2), and is kept whole otherwise.
TruncatedAtOrPastHalf ==
    [][NonFinalWindow =>
          IF LastInWindow >= 0 /\ 2 * LastInWindow >= chunk_size
          THEN WindowKept(LastInWindow + 1)
          ELSE WindowKept(chunk_size)]_vars

\* C22 amended: a non-final window is truncated just after its last sentence
\* terminator when that terminator lies strictly past half of chunk_size
\* (offset > chunk_size / 2), and is kept whole otherwise, a terminator
\* exactly at half of chunk_size included.
TruncatedPastHalf ==
    [][NonFinalWindow =>
          IF 2 * LastInWindow > chunk_size
          THEN WindowKept(LastInWindow + 1)
          ELSE WindowKept(chunk_size)]_vars

\* the first window, not final, had its last terminator exactly at half of
\* chunk_size and was kept whole
BoundaryTerminatorKept ==
    /\ dp_pc \in {"loop", "done"}
    /\ 0 \in visited
    /\ chunk_size < Len(text)
    /\ 2 * LastTerminator(Take(text, chunk_size)) = chunk_size
    /\ chunks /= <<>>
    /\ chunks[1] = Strip(Take(text, chunk_size))

\* end of the window that begins at cursor s, after any truncation
WindowEndAt(s) ==
    LET last == LastTerminator(PySlice(text, s, s + chunk_size))
    IN  IF s + chunk_size < Len(text) /\ 2 * last > chunk_size
        THEN s + last + 1
        ELSE s + chunk_size

\* offsets of the characters of text[s:e]
SourceRange(s, e) ==
    {i \in 0..(Len(text) - 1) :
        SliceIndex(s, Len(text)) <= i /\ i < SliceIndex(e, Len(text))}

\* the loop goes from one window to the next
NextWindow ==
    /\ dp_pc = "loop"
    /\ start < Len(text)
    /\ dp_pc' = "loop"

\* C23 as stated: the next window starts at the end of the previous one,
\* taken after truncation, minus chunk_overlap, and the source ranges of the
\* two chunks share exactly chunk_overlap characters.
ConsecutiveShareOverlap ==
    [][NextWindow =>
          /\ start' = WindowEndAt(start) - chunk_overlap
          /\ Cardinality(SourceRange(start, WindowEndAt(start))
                            \cap SourceRange(start', WindowEndAt(start')))
                = chunk_overlap]_vars

(***************************************************************************)
(* Further properties of the vector stores.                                *)
(***************************************************************************)
\* C26 as stated: in every adapter, a delete by a non-empty filters dict F
\* that returns removes only points whose metadata matches every key and
\* value of F, also when F has a key the adapter does not know as a field.
DeleteRemovesOnlyMatching ==
    (/\ vs_call.op = "delete"
     /\ vs_call.raised = "none"
     /\ vs_call.ids = <<>>
     /\ vs_call.filters /= <<>>)
    => \A id \in DOMAIN vs_before \ DOMAIN vs_points :
          MatchesAll(PayloadOf(vs_provider, vs_before[id]), vs_call.filters)

\* C27 as stated: in every adapter, an upsert that returns normally returns
\* the number of records that call wrote, and every id of its ids argument
\* is in the store afterwards.
UpsertCountsWritten ==
    (vs_call.op = "upsert" /\ vs_call.raised = "none")
    => /\ vs_call.ret = Min(vs_call.lens[1], Min(vs_call.lens[2], vs_call.lens[3]))
       /\ \A i \in 1..Len(vs_call.ids) : vs_call.ids[i] \in DOMAIN vs_points

(***************************************************************************)
(* Properties of upload_document.                                          *)
(***************************************************************************)
\* C28 as stated: after any sequence of uploads the chunk ids stored for a
\* document id are exactly those of its latest upload, <id>_chunk_0 up to
\* the latest chunk count; none with a higher number remains.
StoredChunksAreLatestUpload ==
    \A d \in DOMAIN up_latest :
        {id \in DOMAIN up_points : id.document = d}
            = {[document |-> d, chunk |-> k] : k \in 0..(up_latest[d] - 1)}
====
